---------------------------- MODULE Spec2Model ----------------------------
(***************************************************************************)
(* VANET fault-injection simulator: the street grid, the OBU and RSU       *)
(* population managers, the ether and the simulator's round loop.          *)
(*                                                                         *)
(* Conventions.  Option<T> is a sequence of length 0 (None) or 1 (Some).   *)
(* A Coordinate is a record [x, y].  A HashMap<u32, T> is a function from  *)
(* the set of its keys.  Failure rates are held in percent (0.02 -> 2),    *)
(* which is the resolution of Simulator::random_event.                     *)
(***************************************************************************)
EXTENDS Integers, Naturals, Sequences, FiniteSets, TLC

VARIABLES
    grid,         \* Simulator.grid
    obu_manager,  \* Simulator.obu_manager
    rsu_manager,  \* Simulator.rsu_manager
    round,        \* Simulator.round
    ether,        \* Simulator.ether.messages
    pc,           \* position of the caller: which call or phase of run comes next
    rounds_left,  \* iterations of run's for loop still to execute
    last_result,  \* the value returned by the last add_on_board_unit / create_obu
    report,       \* what the last run printed: the detector's list and the matrix
    flight        \* bookkeeping of collections and deliveries (not program state)

vars == <<grid, obu_manager, rsu_manager, round, ether, pc, rounds_left,
          last_result, report, flight>>

None == <<>>
Some(v) == <<v>>
Coordinate(x, y) == [x |-> x, y |-> y]

-----------------------------------------------------------------------------
(* Bounds of the model.                                                    *)

\* largest blocks_per_street / block_size drawn for construction and init
MaxBlocksPerStreet == 3
MaxBlockSize == 2
\* largest RSU rx_range drawn for the lattice placement
MaxRxRange == 11
\* largest max_obus / faulty_obus drawn for the OBU manager on its own
MaxCap == 7
\* the simulator's runs: largest max_obus, total number of rounds, and the
\* number of failed random trials (transmission or GPS) in one execution
MaxSimObus == 2
MaxRounds == 2
MaxFailures == 1
\* the range-geometry calls: largest range, and largest coordinate of the
\* boxes handed to check_overlaping_squares
MaxBoxRange == 6
MaxBoxCoord == 3
\* the occupants inserted before cells are moved by hand
MaxMoveObus == 2
\* the round numbers handed to set_current_round, and the rounds of history
\* the RSU manager is driven to when it is called by hand
MaxSetRound == 2
MaxHistory == 3
\* the ids handed to insert_obu when the grid is filled by hand
MaxInsertObus == 4
\* the samples handed to calculate_mad: up to MaxSampleLen values among
\* 0, 1/2, ..., MaxSampleValue/2
MaxSampleLen == 4
MaxSampleValue == 4
\* the rounds delivered to the RSU manager before the detector is called
\* on its own
MaxLedgerRounds == 2
\* the largest tx_range of the OBU whose spoof search is run draw by draw
MaxSearchRange == 2
\* the deliveries made by hand to both managers
MaxDeliveries == 2

-----------------------------------------------------------------------------
(* Grid (grid.rs)                                                          *)

Dimension(blocks_per_street, block_size) ==
    blocks_per_street * block_size + blocks_per_street + 1

\* street cells at the crossings only
CrossingsOnly(i, j, block_size) ==
    i % (block_size + 1) = 0 /\ j % (block_size + 1) = 0

CellIsStreet(i, j, block_size) ==
    i % (block_size + 1) = 0 \/ j % (block_size + 1) = 0

GridNew(blocks_per_street, block_size) ==
    LET dimension == Dimension(blocks_per_street, block_size)
    IN  [ block_size        |-> block_size,
          blocks_per_street |-> blocks_per_street,
          dimension         |-> dimension,
          street_cells      |-> dimension * dimension
                                - blocks_per_street * blocks_per_street
                                  * block_size * block_size,
          cells |-> [i \in 0 .. dimension - 1 |->
                      [j \in 0 .. dimension - 1 |->
                        [ id               |-> i * dimension + j,
                          is_street        |-> CellIsStreet(i, j, block_size),
                          obu_id           |-> None,
                          next_coordinates |-> <<>> ]]] ]

IsStreet(g, i) == i % (g.block_size + 1) = 0

\* both axes of a street index flow the same way
SameSenseOnBothAxes(street_id, is_column) ==
    IF street_id % 2 = 0 THEN "ToZero" ELSE "FromZero"

GetFlowDirection(street_id, is_column) ==
    IF street_id % 2 = 0
    THEN IF is_column THEN "ToZero" ELSE "FromZero"
    ELSE IF is_column THEN "FromZero" ELSE "ToZero"

\* successors computed without asking whether the column or row is a street
IgnoresStreetFlags(g, c) ==
    LET col == IF GetFlowDirection(c.x, TRUE) = "FromZero"
               THEN IF c.y < g.dimension - 1
                    THEN <<Coordinate(c.x, c.y + 1)>> ELSE <<>>
               ELSE IF c.y > 0
                    THEN <<Coordinate(c.x, c.y - 1)>> ELSE <<>>
        row == IF GetFlowDirection(c.y, FALSE) = "FromZero"
               THEN IF c.x < g.dimension - 1
                    THEN <<Coordinate(c.x + 1, c.y)>> ELSE <<>>
               ELSE IF c.x > 0
                    THEN <<Coordinate(c.x - 1, c.y)>> ELSE <<>>
    IN  col \o row

CalculateNextCoordinates(g, c) ==
    LET col == IF IsStreet(g, c.x)
               THEN IF GetFlowDirection(c.x, TRUE) = "FromZero"
                    THEN IF c.y < g.dimension - 1
                         THEN <<Coordinate(c.x, c.y + 1)>> ELSE <<>>
                    ELSE IF c.y > 0
                         THEN <<Coordinate(c.x, c.y - 1)>> ELSE <<>>
               ELSE <<>>
        row == IF IsStreet(g, c.y)
               THEN IF GetFlowDirection(c.y, FALSE) = "FromZero"
                    THEN IF c.x < g.dimension - 1
                         THEN <<Coordinate(c.x + 1, c.y)>> ELSE <<>>
                    ELSE IF c.x > 0
                         THEN <<Coordinate(c.x - 1, c.y)>> ELSE <<>>
               ELSE <<>>
    IN  col \o row

UpdateNextCoordinates(g) ==
    [g EXCEPT !.cells =
        [i \in 0 .. g.dimension - 1 |->
          [j \in 0 .. g.dimension - 1 |->
            IF g.cells[i][j].is_street
            THEN [g.cells[i][j] EXCEPT !.next_coordinates =
                      CalculateNextCoordinates(g, Coordinate(i, j))]
            ELSE g.cells[i][j]]]]

\* a read that never computes the lists
ReadsWithoutComputing(g) == g

\* get_next_coordinates is a read that may write: the grid after the call
GridAfterGetNext(g) ==
    IF Len(g.cells[0][0].next_coordinates) = 0
    THEN UpdateNextCoordinates(g)
    ELSE g

GetNextCoordinates(g, c) == GridAfterGetNext(g).cells[c.x][c.y].next_coordinates

GetCellState(g, c) == g.cells[c.x][c.y]

\* the successor list without the occupancy filter
AllSuccessors(g, c) == GetNextCoordinates(g, c)

GetPossibleMoves(g, c) ==
    SelectSeq(GetNextCoordinates(g, c),
              LAMBDA n : GetCellState(g, n).obu_id = None)

\* a move that copies the occupant and leaves the old cell as it was
MoveObuCopies(g, current_coordinate, next_coordinate) ==
    [g EXCEPT !.cells[next_coordinate.x][next_coordinate.y].obu_id =
        GetCellState(g, current_coordinate).obu_id]

\* the two cell states are cloned first and written back in this order
MoveObu(g, current_coordinate, next_coordinate) ==
    LET current_cell_state == GetCellState(g, current_coordinate)
        next_cell_state    == GetCellState(g, next_coordinate)
        g1 == [g EXCEPT !.cells[current_coordinate.x][current_coordinate.y] =
                  [current_cell_state EXCEPT !.obu_id = None]]
    IN  [g1 EXCEPT !.cells[next_coordinate.x][next_coordinate.y] =
            [next_cell_state EXCEPT !.obu_id = current_cell_state.obu_id]]

\* the street ids visited by insert_obu's while loop, in order
RECURSIVE InsertScan(_, _, _)
InsertScan(g, obu_id, street_id) ==
    IF street_id >= g.dimension
    THEN [grid |-> g, result |-> None]
    ELSE IF IsStreet(g, street_id)
    THEN LET cstart == IF GetFlowDirection(street_id, TRUE) = "FromZero"
                       THEN 0 ELSE g.dimension - 1
             rstart == IF GetFlowDirection(street_id, FALSE) = "FromZero"
                       THEN 0 ELSE g.dimension - 1
         IN  IF g.cells[street_id][cstart].obu_id = None
             THEN [grid   |-> [g EXCEPT !.cells[street_id][cstart].obu_id =
                                   Some(obu_id)],
                   result |-> Some(Coordinate(street_id, cstart))]
             ELSE IF g.cells[rstart][street_id].obu_id = None
             THEN [grid   |-> [g EXCEPT !.cells[rstart][street_id].obu_id =
                                   Some(obu_id)],
                   result |-> Some(Coordinate(rstart, street_id))]
             ELSE InsertScan(g, obu_id, street_id + g.block_size + 1)
    ELSE InsertScan(g, obu_id, street_id + g.block_size + 1)

\* a scan that starts at the second street
SkipsFirstStreet(g, obu_id) == InsertScan(g, obu_id, g.block_size + 1)

InsertObu(g, obu_id) == InsertScan(g, obu_id, 0)

-----------------------------------------------------------------------------
(* OBU population manager (obu_manager.rs) and OBU (obu.rs)                *)

\* the four failure rates handed to the manager, in percent; pairwise
\* distinct, so that each OBU field shows which rate it was given
ObuRates ==
    [ tx_base_failure_rate        |-> 2,
      tx_faulty_obu_failure_rate  |-> 5,
      gps_failure_rate            |-> 3,
      gps_faulty_obu_failure_rate |-> 7 ]

ObuManagerNew(max_obus, comms_range, faulty_obus, grid_dimension) ==
    [ next_id                     |-> 0,
      max_obus                    |-> max_obus,
      comms_range                 |-> comms_range,
      tx_base_failure_rate        |-> ObuRates.tx_base_failure_rate,
      tx_faulty_obu_failure_rate  |-> ObuRates.tx_faulty_obu_failure_rate,
      gps_failure_rate            |-> ObuRates.gps_failure_rate,
      gps_faulty_obu_failure_rate |-> ObuRates.gps_faulty_obu_failure_rate,
      faulty_obus                 |-> faulty_obus,
      faulty_obus_added           |-> 0,
      grid_dimension              |-> grid_dimension,
      obus                        |-> <<>>,
      current_round               |-> 0 ]

OnBoardUnitNew(id, coordinate, comms_range, tx_failure_rate, gps_failure_rate, is_faulty, grid_dimension) ==
    [ id               |-> id,
      coordinate       |-> coordinate,
      tx_range         |-> comms_range,
      tx_failure_rate  |-> tx_failure_rate,
      gps_failure_rate |-> gps_failure_rate,
      is_faulty        |-> is_faulty,
      neighbors        |-> <<>>,
      grid_dimension   |-> grid_dimension ]

ObusLen(m) == Cardinality(DOMAIN m.obus)

\* a placement without the count of the faulty OBUs already added
MarksEveryNth(m) ==
    /\ m.faulty_obus > 0
    /\ (ObusLen(m) + 1) % (m.max_obus \div m.faulty_obus) = 0

\* a placement that counts the OBUs present, not the one being created
MarksByPopulation(m) ==
    /\ m.faulty_obus > 0
    /\ m.faulty_obus_added < m.faulty_obus
    /\ ObusLen(m) % (m.max_obus \div m.faulty_obus) = 0

\* the test of obu_manager.rs:134-135; a zero divisor is the remainder panic
MarksFaulty(m) ==
    /\ m.faulty_obus > 0
    /\ m.faulty_obus_added < m.faulty_obus
    /\ (ObusLen(m) + 1) % (m.max_obus \div m.faulty_obus) = 0

CreateObuPanics(m) ==
    /\ ObusLen(m) < m.max_obus
    /\ m.faulty_obus > 0
    /\ m.faulty_obus_added < m.faulty_obus
    /\ m.max_obus \div m.faulty_obus = 0

\* create_obu below its cap test: rates, flag, insertion, next id
InsertNewObu(m, coordinate) ==
    LET id == m.next_id
        is_faulty == MarksFaulty(m)
        tx_failure_rate  == IF is_faulty
                            THEN m.tx_faulty_obu_failure_rate
                            ELSE m.tx_base_failure_rate
        gps_failure_rate == IF is_faulty
                            THEN m.gps_faulty_obu_failure_rate
                            ELSE m.gps_failure_rate
        obu == OnBoardUnitNew(id, coordinate, m.comms_range,
                              tx_failure_rate, gps_failure_rate,
                              is_faulty, m.grid_dimension)
    IN  [mgr |-> [m EXCEPT
                    !.faulty_obus_added = IF is_faulty THEN @ + 1 ELSE @,
                    !.obus = [k \in DOMAIN m.obus \cup {id} |->
                                IF k = id THEN obu ELSE m.obus[k]],
                    !.next_id = @ + 1],
         result |-> Some(id)]

\* a cap test that lets one OBU too many in
CreateObuPastCap(m, coordinate) ==
    IF ObusLen(m) > m.max_obus
    THEN [mgr |-> m, result |-> None]
    ELSE InsertNewObu(m, coordinate)

\* create_obu: the manager after the call and the returned Option<u32>
CreateObu(m, coordinate) ==
    IF ObusLen(m) >= m.max_obus
    THEN [mgr |-> m, result |-> None]
    ELSE InsertNewObu(m, coordinate)

-----------------------------------------------------------------------------
(* RSU population manager (rsu_manager.rs), RSU (rsu.rs) and the lattice   *)
(* placement of Simulator::add_road_side_units                             *)

RsuManagerNew(tx_range, rx_range, detect_obu_tx_failure, detect_obu_gps_failure) ==
    [ next_id                |-> 0,
      tx_range               |-> tx_range,
      rx_range               |-> rx_range,
      rsus                   |-> <<>>,
      current_round          |-> 0,
      obu_observations       |-> <<>>,
      detect_obu_tx_failure  |-> detect_obu_tx_failure,
      detect_obu_gps_failure |-> detect_obu_gps_failure ]

RoadSideUnitNew(id, coordinate) ==
    [id |-> id, coordinate |-> coordinate, neighbors |-> <<>>]

\* create_rsu: the manager after the call (the returned id is the old next_id)
CreateRsu(m, coordinate) ==
    [m EXCEPT !.rsus = [k \in DOMAIN m.rsus \cup {m.next_id} |->
                          IF k = m.next_id
                          THEN RoadSideUnitNew(m.next_id, coordinate)
                          ELSE m.rsus[k]],
              !.next_id = @ + 1]

\* a placement that never snaps to the border
NeverSnaps(next, last_added, rx_range, dimension) ==
    next + (rx_range * 2) - 1

\* a placement that snaps also when the last RSU reaches the border
SnapsAtBorder(next, last_added, rx_range, dimension) ==
    LET stepped == next + (rx_range * 2) - 1
    IN  IF stepped >= dimension /\ last_added + rx_range <= dimension
        THEN dimension - 1
        ELSE stepped

\* the coordinate that follows `next` on one axis (simulator.rs:78-88 and 92-102)
NextOnAxis(next, last_added, rx_range, dimension) ==
    LET stepped == next + (rx_range * 2) - 1
    IN  IF stepped >= dimension /\ last_added + rx_range < dimension
        THEN dimension - 1
        ELSE stepped

\* the inner while loop; fuel counts the iterations still allowed
RECURSIVE PlaceColumn(_, _, _, _, _)
PlaceColumn(m, x, y, dimension, fuel) ==
    IF ~(y < dimension)
    THEN [mgr |-> m, done |-> TRUE]
    ELSE IF fuel = 0
    THEN [mgr |-> m, done |-> FALSE]
    ELSE PlaceColumn(CreateRsu(m, Coordinate(x, y)), x,
                     NextOnAxis(y, y, m.rx_range, dimension),
                     dimension, fuel - 1)

\* the outer while loop
RECURSIVE PlaceLattice(_, _, _, _)
PlaceLattice(m, x, dimension, fuel) ==
    IF ~(x < dimension)
    THEN [mgr |-> m, done |-> TRUE]
    ELSE IF fuel = 0
    THEN [mgr |-> m, done |-> FALSE]
    ELSE LET column == PlaceColumn(m, x, m.rx_range - 1, dimension, dimension + 1)
         IN  IF ~column.done
             THEN column
             ELSE PlaceLattice(column.mgr,
                               NextOnAxis(x, x, m.rx_range, dimension),
                               dimension, fuel - 1)

\* add_road_side_units, entered with no RSU present
AddRoadSideUnits(m, dimension) ==
    PlaceLattice(m, m.rx_range - 1, dimension, dimension + 1)

-----------------------------------------------------------------------------
(* Ether and messages (comms.rs), beacon emission (obu.rs)                 *)

Sq(n) == n * n

\* a range test that leaves the boundary out
StrictlyWithinRange(transmitter_coordinate, transmitter_range, receiver_coordinate) ==
    Sq(transmitter_coordinate.x - receiver_coordinate.x)
      + Sq(transmitter_coordinate.y - receiver_coordinate.y)
    < Sq(transmitter_range)

\* sqrt(dx^2 + dy^2) <= range, on integers
IsTransmissionPossible(transmitter_coordinate, transmitter_range, receiver_coordinate) ==
    Sq(transmitter_coordinate.x - receiver_coordinate.x)
      + Sq(transmitter_coordinate.y - receiver_coordinate.y)
    <= Sq(transmitter_range)

Min(a, b) == IF a < b THEN a ELSE b

\* a box of half-width range, not range - 1
BoxOfFullRange(g, coordinate, range0) ==
    [ x1 |-> IF coordinate.x - range0 > 0 THEN coordinate.x - range0 ELSE 0,
      y1 |-> IF coordinate.y - range0 > 0 THEN coordinate.y - range0 ELSE 0,
      x2 |-> Min(g.dimension - 1, coordinate.x + range0),
      y2 |-> Min(g.dimension - 1, coordinate.y + range0) ]

GetSquareCords(g, coordinate, range0) ==
    LET range == range0 - 1
    IN  [ x1 |-> IF coordinate.x - range > 0 THEN coordinate.x - range ELSE 0,
          y1 |-> IF coordinate.y - range > 0 THEN coordinate.y - range ELSE 0,
          x2 |-> Min(g.dimension - 1, coordinate.x + range),
          y2 |-> Min(g.dimension - 1, coordinate.y + range) ]

\* an overlap test that takes touching boxes for disjoint
OverlapsStrictly(square1, square2) ==
    ~( \/ square1.x1 >= square2.x2 \/ square1.x2 <= square2.x1
       \/ square1.y1 >= square2.y2 \/ square1.y2 <= square2.y1 )

CheckOverlapingSquares(square1, square2) ==
    ~( \/ square1.x1 > square2.x2 \/ square1.x2 < square2.x1
       \/ square1.y1 > square2.y2 \/ square1.y2 < square2.y1 )

MessageNew(origin_id, origin_type, coordinate, phy_coord, phy_range) ==
    [ origin_id   |-> origin_id,
      origin_type |-> origin_type,
      coordinate  |-> coordinate,
      phy_coord   |-> phy_coord,
      phy_range   |-> phy_range,
      phy_area    |-> [x1 |-> 0, y1 |-> 0, x2 |-> 0, y2 |-> 0] ]

\* the outcomes of random_event(probability): a draw of 1..100 over 100
RandomEvent(probability) ==
    {b \in BOOLEAN : \E random_number \in 1 .. 100 :
                        b = (random_number <= probability)}

\* a search that accepts every cell beyond tx_range
BeyondRange(obu) ==
    {c \in {Coordinate(x, y) : x \in 0 .. obu.grid_dimension - 1,
                               y \in 0 .. obu.grid_dimension - 1} :
        Sq(obu.coordinate.x - c.x) + Sq(obu.coordinate.y - c.y) > Sq(obu.tx_range)}

\* a spoofed coordinate that is any cell but the OBU's own
AnyOtherCell(obu) ==
    {c \in {Coordinate(x, y) : x \in 0 .. obu.grid_dimension - 1,
                               y \in 0 .. obu.grid_dimension - 1} :
        c # obu.coordinate}

\* the coordinates get_random_coordinate_outside_range can return
OutsideRange(obu) ==
    {c \in {Coordinate(x, y) : x \in 0 .. obu.grid_dimension - 1,
                               y \in 0 .. obu.grid_dimension - 1} :
        Sq(obu.coordinate.x - c.x) + Sq(obu.coordinate.y - c.y)
          > Sq(obu.tx_range + 2)}

\* get_message: what one OBU can emit.  kind is "none" (transmission
\* failure), "sent", "spoofed" (GPS failure) or "hang" (the search for a
\* coordinate outside the range never ends)
GetMessage(obu) ==
    LET msg(reported) == MessageNew(obu.id, "OBU", reported, obu.coordinate,
                                    obu.tx_range)
    IN  {[kind |-> "none", message |-> None] :
            b \in {b \in RandomEvent(obu.tx_failure_rate) : b}}
        \cup
        {[kind |-> "sent", message |-> Some(msg(obu.coordinate))] :
            b \in {b \in RandomEvent(obu.gps_failure_rate) :
                     ~b /\ FALSE \in RandomEvent(obu.tx_failure_rate)}}
        \cup
        {[kind |-> "spoofed", message |-> Some(msg(c))] :
            c \in {c \in OutsideRange(obu) :
                     /\ FALSE \in RandomEvent(obu.tx_failure_rate)
                     /\ TRUE \in RandomEvent(obu.gps_failure_rate)}}
        \cup
        {[kind |-> "hang", message |-> None] :
            b \in {b \in RandomEvent(obu.gps_failure_rate) :
                     /\ b
                     /\ FALSE \in RandomEvent(obu.tx_failure_rate)
                     /\ OutsideRange(obu) = {}}}

\* the ids of a HashMap in ascending order.  The iteration order of a
\* HashMap is unspecified; where it only decides the order of the entries of
\* a list (ether, neighbors, sightings) the ascending order stands for all
RECURSIVE Ascending(_)
Ascending(S) ==
    IF S = {} THEN <<>>
    ELSE LET lo == CHOOSE a \in S : \A b \in S : a <= b
         IN  <<lo>> \o Ascending(S \ {lo})

\* OnBoardUnitManager::collect_messages over the OBUs ids[k..]: every
\* combination of outcomes with at most `left` failed trials
RECURSIVE CollectFrom(_, _, _, _)
CollectFrom(m, ids, k, left) ==
    IF k > Len(ids)
    THEN {[messages |-> <<>>, failures |-> 0, hung |-> FALSE]}
    ELSE UNION {
           IF o.kind = "hang"
           THEN {[messages |-> <<>>, failures |-> 1, hung |-> TRUE]}
           ELSE {[messages |-> o.message \o rest.messages,
                  failures |-> rest.failures + (IF o.kind = "sent" THEN 0 ELSE 1),
                  hung     |-> rest.hung] :
                    rest \in CollectFrom(m, ids, k + 1,
                               left - (IF o.kind = "sent" THEN 0 ELSE 1))}
           : o \in {o \in GetMessage(m.obus[ids[k]]) :
                      o.kind # "sent" => left > 0} }

\* Simulator::collect_messages: the ether after clear() and the sends of the
\* OBUs' messages (RoadSideUnit::get_message returns None: no RSU message)
\* a collection that leaves the previous round's messages in the ether
EtherKeepsOld(old_ether, g, collected) ==
    old_ether \o
    [k \in 1 .. Len(collected) |->
        [collected[k] EXCEPT !.phy_area =
            GetSquareCords(g, collected[k].phy_coord, collected[k].phy_range)]]

EtherAfterCollect(old_ether, g, collected) ==
    [k \in 1 .. Len(collected) |->
        [collected[k] EXCEPT !.phy_area =
            GetSquareCords(g, collected[k].phy_coord, collected[k].phy_range)]]

-----------------------------------------------------------------------------
(* Delivery (obu_manager.rs, rsu_manager.rs, obu.rs, rsu.rs)               *)

NeighborEntry(message) == [id |-> message.origin_id, coordinate |-> message.coordinate]

\* the messages an OBU keeps: OnBoardUnitManager::deliver_messages hands over
\* the reachable ones, OnBoardUnit::receive_message drops its own and the RSUs'
RECURSIVE ObuNeighbors(_, _, _)
ObuNeighbors(obu, messages, k) ==
    IF k > Len(messages) THEN <<>>
    ELSE (IF /\ IsTransmissionPossible(messages[k].phy_coord,
                                       messages[k].phy_range, obu.coordinate)
             /\ messages[k].origin_type = "OBU"
             /\ messages[k].origin_id # obu.id
          THEN <<NeighborEntry(messages[k])>> ELSE <<>>)
         \o ObuNeighbors(obu, messages, k + 1)

\* a delivery that appends to the neighbor lists without clearing them
ObuDeliverAccumulates(m, messages) ==
    [m EXCEPT !.obus = [id \in DOMAIN m.obus |->
        [m.obus[id] EXCEPT !.neighbors = @ \o ObuNeighbors(m.obus[id], messages, 1)]]]

ObuDeliverMessages(m, messages) ==
    [m EXCEPT !.obus = [id \in DOMAIN m.obus |->
        [m.obus[id] EXCEPT !.neighbors = ObuNeighbors(m.obus[id], messages, 1)]]]

RECURSIVE RsuNeighbors(_, _, _)
RsuNeighbors(rsu, messages, k) ==
    IF k > Len(messages) THEN <<>>
    ELSE (IF /\ IsTransmissionPossible(messages[k].phy_coord,
                                       messages[k].phy_range, rsu.coordinate)
             /\ messages[k].origin_type = "OBU"
          THEN <<NeighborEntry(messages[k])>> ELSE <<>>)
         \o RsuNeighbors(rsu, messages, k + 1)

\* the sightings of obu_id by the RSUs ids[k..], one per neighbor entry
RECURSIVE Sightings(_, _, _, _)
Sightings(rsus, ids, k, obu_id) ==
    IF k > Len(ids) THEN <<>>
    ELSE LET rsu  == rsus[ids[k]]
             mine == SelectSeq(rsu.neighbors, LAMBDA n : n.id = obu_id)
         IN  [j \in 1 .. Len(mine) |->
                 [coordinate |-> mine[j].coordinate, rsu_id |-> rsu.id]]
             \o Sightings(rsus, ids, k + 1, obu_id)

\* a round entry that keeps only the first sighting of each OBU
FirstSightingOnly(rsus) ==
    LET seen == UNION {{rsus[r].neighbors[j].id : j \in 1 .. Len(rsus[r].neighbors)} :
                         r \in DOMAIN rsus}
    IN  [obu_id \in seen |->
            <<Sightings(rsus, Ascending(DOMAIN rsus), 1, obu_id)[1]>>]

RoundData(rsus) ==
    LET seen == UNION {{rsus[r].neighbors[j].id : j \in 1 .. Len(rsus[r].neighbors)} :
                         r \in DOMAIN rsus}
    IN  [obu_id \in seen |-> Sightings(rsus, Ascending(DOMAIN rsus), 1, obu_id)]

\* the panic of update_obu_observations
RoundAlreadyInVector(m) == Len(m.obu_observations) = m.current_round + 1

\* a history that skips the rounds in which no RSU saw an OBU
SkipsEmptyRounds(m) ==
    IF DOMAIN RoundData(m.rsus) = {}
    THEN m
    ELSE [m EXCEPT !.obu_observations = Append(@, RoundData(m.rsus))]

UpdateObuObservations(m) ==
    [m EXCEPT !.obu_observations = Append(@, RoundData(m.rsus))]

\* RoadSideUnitManager::deliver_messages, when it does not panic
RsuDeliverMessages(m, messages) ==
    UpdateObuObservations(
        [m EXCEPT !.rsus = [id \in DOMAIN m.rsus |->
            [m.rsus[id] EXCEPT !.neighbors = RsuNeighbors(m.rsus[id], messages, 1)]]])

-----------------------------------------------------------------------------
(* Moves and population (simulator.rs)                                     *)

\* add_on_board_unit: the cell is marked first, the OBU created second
AddOnBoardUnit(g, m) ==
    LET ins == InsertObu(g, m.next_id)
    IN  IF ins.result # None
        THEN LET created == CreateObu(m, ins.result[1])
             IN  [grid |-> ins.grid, mgr |-> created.mgr, result |-> created.result]
        ELSE [grid |-> ins.grid, mgr |-> m, result |-> None]

\* the top-up loop of run
RECURSIVE TopUp(_, _)
TopUp(g, m) ==
    IF ~(ObusLen(m) < m.max_obus)
    THEN [grid |-> g, mgr |-> m]
    ELSE LET added == AddOnBoardUnit(g, m)
         IN  IF added.result # None
             THEN TopUp(added.grid, added.mgr)
             ELSE [grid |-> added.grid, mgr |-> added.mgr]

\* a move phase in which no OBU is visited
EveryoneStays(g, obus, todo) == {[grid |-> g, obus |-> obus]}

\* do_obus_moves: every outcome of visiting the OBUs in `todo` in any order
\* (HashMap order) and choosing any possible move for each
RECURSIVE DoObusMoves(_, _, _)
DoObusMoves(g, obus, todo) ==
    IF todo = {}
    THEN {[grid |-> g, obus |-> obus]}
    ELSE UNION {
           LET cur   == obus[id].coordinate
               moves == GetPossibleMoves(g, cur)
               g1    == GridAfterGetNext(g)
           IN  IF Len(moves) = 0
               THEN DoObusMoves(g1, obus, todo \ {id})
               ELSE UNION {
                      DoObusMoves(MoveObu(g1, cur, moves[k]),
                                  [obus EXCEPT ![id].coordinate = moves[k]],
                                  todo \ {id})
                      : k \in 1 .. Len(moves)}
           : id \in todo}

-----------------------------------------------------------------------------
(* The detector (rsu_manager.rs).  An f32 is held as an exact fraction     *)
(* [n, d] in lowest terms with d > 0.                                      *)

RECURSIVE Gcd(_, _)
Gcd(a, b) == IF b = 0 THEN a ELSE Gcd(b, a % b)

Abs(n) == IF n < 0 THEN -n ELSE n

Frac(n, d) ==
    LET g == Gcd(Abs(n), d)
    IN  IF n = 0 THEN [n |-> 0, d |-> 1] ELSE [n |-> n \div g, d |-> d \div g]

FracAdd(a, b) == Frac(a.n * b.d + b.n * a.d, a.d * b.d)
FracSub(a, b) == Frac(a.n * b.d - b.n * a.d, a.d * b.d)
FracMul(a, b) == Frac(a.n * b.n, a.d * b.d)
FracAbs(a) == [n |-> Abs(a.n), d |-> a.d]
FracLess(a, b) == a.n * b.d < b.n * a.d
FracGeq(a, b) == ~FracLess(a, b)

\* sort_by(partial_cmp): ascending
RECURSIVE SortFracs(_)
SortFracs(values) ==
    IF Len(values) = 0 THEN <<>>
    ELSE LET k == CHOOSE i \in 1 .. Len(values) :
                     \A j \in 1 .. Len(values) : ~FracLess(values[j], values[i])
         IN  <<values[k]>>
             \o SortFracs([j \in 1 .. Len(values) - 1 |->
                             IF j < k THEN values[j] ELSE values[j + 1]])

\* the median of calculate_mad over a sorted, non-empty vector (0-based
\* indices len/2 - 1 and len/2 of the source are 1-based len/2 and len/2 + 1)
MedianOfSorted(sorted) ==
    IF Len(sorted) % 2 = 0
    THEN FracMul(FracAdd(sorted[Len(sorted) \div 2],
                         sorted[Len(sorted) \div 2 + 1]), Frac(1, 2))
    ELSE sorted[Len(sorted) \div 2 + 1]

\* the scaling factor 1.4826
MadScale == Frac(7413, 5000)

\* a MAD whose two medians are the lower central element for even sizes
LowerMiddleMad(values) ==
    LET sorted_values == SortFracs(values)
        median   == sorted_values[(Len(values) + 1) \div 2]
        abs_devs == SortFracs([k \in 1 .. Len(sorted_values) |->
                                  FracAbs(FracSub(sorted_values[k], median))])
    IN  FracMul(abs_devs[(Len(values) + 1) \div 2], MadScale)

\* calculate_mad over a non-empty vector (an empty one panics at len/2 - 1)
CalculateMad(values) ==
    LET sorted_values == SortFracs(values)
        median   == MedianOfSorted(sorted_values)
        abs_devs == SortFracs([k \in 1 .. Len(sorted_values) |->
                                  FracAbs(FracSub(sorted_values[k], median))])
    IN  FracMul(MedianOfSorted(abs_devs), MadScale)

\* the multiplier ce of find_faulty_obus
Ce == Frac(3, 1)

\* median + ce * mad with median = sorted[len / 2 - 1], for len >= 2
Threshold(errors) ==
    LET sorted == SortFracs(errors)
        median == sorted[Len(errors) \div 2]
    IN  FracAdd(median, FracMul(Ce, CalculateMad(errors)))

\* the index expressions len/2 - 1 of rsu_manager.rs:250,255 and :358 leave
\* the vector (or underflow) when fewer than two OBUs were observed
DetectorPanics(observed) == Cardinality(observed) < 2

ObservedObus(obu_observations) ==
    UNION {DOMAIN obu_observations[i] : i \in 1 .. Len(obu_observations)}

\* one GPS error for a round's sightings: the loop stops at the first
\* sighting whose RSU is farther than rx_range + 3 from the reported place
GpsErrorInRound(m, obu_data) ==
    \E k \in 1 .. Len(obu_data) :
        ~IsTransmissionPossible(obu_data[k].coordinate, m.rx_range + 3,
                                m.rsus[obu_data[k].rsu_id].coordinate)

\* statistics that count the rounds before the first sighting as misses
CountsFromRoundZero(m, obu_id) ==
    LET obs       == m.obu_observations
        seen_in   == {i \in 1 .. Len(obs) : obu_id \in DOMAIN obs[i]}
        first_seen == (CHOOSE i \in seen_in : \A j \in seen_in : i <= j) - 1
        gps_error_count ==
            Cardinality({i \in seen_in : GpsErrorInRound(m, obs[i][obu_id])})
        tx_error_count == Len(obs) - Cardinality(seen_in)
    IN  [ tx_count        |-> Cardinality(seen_in),
          first_seen      |-> first_seen,
          tx_error_count  |-> tx_error_count,
          tx_error_rate   |-> Frac(tx_error_count, m.current_round),
          gps_error_count |-> gps_error_count,
          gps_error_rate  |-> Frac(gps_error_count, Cardinality(seen_in)) ]

\* statistics whose first-seen index starts at one
FirstSeenOneBased(m, obu_id) ==
    LET obs       == m.obu_observations
        seen_in   == {i \in 1 .. Len(obs) : obu_id \in DOMAIN obs[i]}
        first_seen == CHOOSE i \in seen_in : \A j \in seen_in : i <= j
        gps_error_count ==
            Cardinality({i \in seen_in : GpsErrorInRound(m, obs[i][obu_id])})
        tx_error_count == Len(obs) - (Cardinality(seen_in) + first_seen)
    IN  [ tx_count        |-> Cardinality(seen_in),
          first_seen      |-> first_seen,
          tx_error_count  |-> tx_error_count,
          tx_error_rate   |-> Frac(tx_error_count, m.current_round),
          gps_error_count |-> gps_error_count,
          gps_error_rate  |-> Frac(gps_error_count, Cardinality(seen_in)) ]

\* ObuErrorStats of one observed OBU after both loops of find_faulty_obus
ErrorStats(m, obu_id) ==
    LET obs       == m.obu_observations
        seen_in   == {i \in 1 .. Len(obs) : obu_id \in DOMAIN obs[i]}
        tx_count  == Cardinality(seen_in)
        first_seen == (CHOOSE i \in seen_in : \A j \in seen_in : i <= j) - 1
        gps_error_count ==
            Cardinality({i \in seen_in : GpsErrorInRound(m, obs[i][obu_id])})
        rounds    == Len(obs)
        tx_error_count == rounds - (tx_count + first_seen)
    IN  [ tx_count        |-> tx_count,
          first_seen      |-> first_seen,
          tx_error_count  |-> tx_error_count,
          tx_error_rate   |-> Frac(tx_error_count, m.current_round),
          gps_error_count |-> gps_error_count,
          gps_error_rate  |-> Frac(gps_error_count, tx_count) ]

\* a decision that wants every enabled detector to find its rate at or
\* above the threshold
EveryEnabledDetects(detect_obu_tx_failure, detect_obu_gps_failure, tx_error_rate, tx_threshold, gps_error_rate, gps_threshold) ==
    /\ detect_obu_tx_failure \/ detect_obu_gps_failure
    /\ detect_obu_tx_failure => FracGeq(tx_error_rate, tx_threshold)
    /\ detect_obu_gps_failure => FracGeq(gps_error_rate, gps_threshold)

\* the test of rsu_manager.rs:305-310: TRUE when the OBU is pushed to the list
IsDetected(detect_obu_tx_failure, detect_obu_gps_failure, tx_error_rate, tx_threshold, gps_error_rate, gps_threshold) ==
    ~( /\ (~detect_obu_tx_failure \/ FracLess(tx_error_rate, tx_threshold))
       /\ (~detect_obu_gps_failure \/ FracLess(gps_error_rate, gps_threshold)) )

\* a classification without the yellow class
RedOrGreen(rate, threshold) ==
    IF threshold.n = 0
    THEN IF rate.n = 0 THEN 2 ELSE 0
    ELSE IF FracGeq(rate, threshold) THEN 0 ELSE 2

\* the class of rate / threshold: 0 red, 1 yellow, 2 green.  With a zero
\* threshold the f32 quotient is +inf for a positive rate (red) and NaN for
\* a zero rate, and both comparisons with NaN are false (green)
ReputationClass(rate, threshold) ==
    IF threshold.n = 0
    THEN IF rate.n = 0 THEN 2 ELSE 0
    ELSE IF FracGeq(rate, threshold) THEN 0
    ELSE IF FracGeq(rate, FracMul(Frac(6, 10), threshold)) THEN 1
    ELSE 2

\* the rows written to reputation.csv, one per entry of error_stats
ReputationLedger(stats, ids, tx_threshold, gps_threshold) ==
    [k \in 1 .. Len(ids) |->
        LET tx_reputation_class ==
                ReputationClass(stats[ids[k]].tx_error_rate, tx_threshold)
            gps_repuation_class ==
                ReputationClass(stats[ids[k]].gps_error_rate, gps_threshold)
        IN  [ obu_id              |-> ids[k],
              tx_error_rate       |-> stats[ids[k]].tx_error_rate,
              tx_reputation_class |-> tx_reputation_class,
              gps_error_rate      |-> stats[ids[k]].gps_error_rate,
              gps_repuation_class |-> gps_repuation_class,
              reputation          |-> Min(tx_reputation_class, gps_repuation_class) ]]

\* find_faulty_obus over at least two observed OBUs
FindFaultyObus(m) ==
    LET ids   == Ascending(ObservedObus(m.obu_observations))
        stats == [id \in ObservedObus(m.obu_observations) |-> ErrorStats(m, id)]
        tx_errors  == [k \in 1 .. Len(ids) |-> stats[ids[k]].tx_error_rate]
        gps_errors == [k \in 1 .. Len(ids) |-> stats[ids[k]].gps_error_rate]
        tx_threshold  == Threshold(tx_errors)
        gps_threshold == Threshold(gps_errors)
    IN  [ error_stats   |-> stats,
          tx_threshold  |-> tx_threshold,
          gps_threshold |-> gps_threshold,
          ledger        |-> ReputationLedger(stats, ids, tx_threshold, gps_threshold),
          faulty_obus   |->
              {id \in DOMAIN stats :
                  IsDetected(m.detect_obu_tx_failure, m.detect_obu_gps_failure,
                             stats[id].tx_error_rate, tx_threshold,
                             stats[id].gps_error_rate, gps_threshold)} ]

\* a matrix that counts every unreported OBU as a true negative
CountsUnreportedAsNegative(obus, rsu_faulty_obs) ==
    [ true_positive  |-> Cardinality({id \in DOMAIN obus :
                            obus[id].is_faulty /\ id \in rsu_faulty_obs}),
      false_negative |-> Cardinality({id \in DOMAIN obus :
                            obus[id].is_faulty /\ id \notin rsu_faulty_obs}),
      false_positive |-> Cardinality({id \in DOMAIN obus :
                            ~obus[id].is_faulty /\ id \in rsu_faulty_obs}),
      true_negative  |-> Cardinality({id \in DOMAIN obus :
                            id \notin rsu_faulty_obs}) ]

\* the confusion matrix of run (simulator.rs:171-190)
ConfusionMatrix(obus, rsu_faulty_obs) ==
    [ true_positive  |-> Cardinality({id \in DOMAIN obus :
                            obus[id].is_faulty /\ id \in rsu_faulty_obs}),
      false_negative |-> Cardinality({id \in DOMAIN obus :
                            obus[id].is_faulty /\ id \notin rsu_faulty_obs}),
      false_positive |-> Cardinality({id \in DOMAIN obus :
                            ~obus[id].is_faulty /\ id \in rsu_faulty_obs}),
      true_negative  |-> Cardinality({id \in DOMAIN obus :
                            ~obus[id].is_faulty /\ id \notin rsu_faulty_obs}) ]

\* the three rates of run (simulator.rs:192-204), each an f32 division kept
\* as numerator and denominator
FinalStats(matrix) ==
    LET total == matrix.true_positive + matrix.true_negative
                   + matrix.false_positive + matrix.false_negative
        total_positive == matrix.false_positive + matrix.true_negative
        total_negative == matrix.false_negative + matrix.true_positive
    IN  [ detection_rate      |-> [num |-> matrix.true_positive + matrix.true_negative,
                                   den |-> total],
          false_positive_rate |-> [num |-> matrix.false_positive,
                                   den |-> total_positive],
          false_negative_rate |-> [num |-> matrix.false_negative,
                                   den |-> total_negative] ]

-----------------------------------------------------------------------------
(* The simulator (simulator.rs): construction, init, add_on_board_unit and *)
(* the phases of run                                                       *)

\* Simulator::new
SimulatorNew(grid_params, rsu_params, obu_params) ==
    /\ grid = GridNew(grid_params.blocks_per_street, grid_params.block_size)
    /\ obu_manager = ObuManagerNew(obu_params.max_obus, obu_params.comms_range,
                                   obu_params.faulty_obus, grid.dimension)
    /\ rsu_manager = RsuManagerNew(rsu_params.tx_range, rsu_params.rx_range,
                                   rsu_params.detect_obu_tx_failure,
                                   rsu_params.detect_obu_gps_failure)
    /\ round = 0
    /\ ether = <<>>

NoFlight ==
    [ iteration   |-> 0,      \* iterations of run's loop begun so far
      in_flight   |-> [iteration |-> 0, round |-> 0, messages |-> <<>>],
      deliveries  |-> 0,      \* deliveries of in_flight so far
      delivered   |-> None,   \* the messages handed over by the last delivery
      failures    |-> 0 ]     \* failed random trials so far

\* the order of the statements of run's loop body (simulator.rs:136-166)
NextPhase(phase) ==
    CASE phase = "deliver" -> "move"
      [] phase = "move"    -> "topup"
      [] phase = "topup"   -> "advance"
      [] phase = "advance" -> "collect"
      [] phase = "collect" -> "deliver"

\* init(): lane graph, RSU lattice, round 0 for both managers
SimInit ==
    /\ pc = "new"
    /\ LET placed == AddRoadSideUnits(rsu_manager, grid.dimension)
       IN  /\ rsu_manager' = [placed.mgr EXCEPT !.current_round = 0]
           /\ pc' = IF placed.done THEN "idle" ELSE "hung"
    /\ grid' = UpdateNextCoordinates(grid)
    /\ obu_manager' = [obu_manager EXCEPT !.current_round = 0]
    /\ UNCHANGED <<round, ether, rounds_left, last_result, report, flight>>

\* a call of add_on_board_unit from outside run
CallAddOnBoardUnit ==
    /\ pc = "idle"
    /\ LET added == AddOnBoardUnit(grid, obu_manager)
       IN  /\ grid' = added.grid
           /\ obu_manager' = added.mgr
           /\ last_result' = added.result
    /\ UNCHANGED <<rsu_manager, round, ether, pc, rounds_left, report, flight>>

\* collect_messages, called when the round counter is at_round, with the
\* outcome `c` of the OBUs' random trials
CollectMessages(c, at_round) ==
    /\ ether' = EtherAfterCollect(ether, grid, c.messages)
    /\ flight' = [flight EXCEPT
                    !.in_flight = [iteration |-> flight.iteration,
                                   round     |-> at_round,
                                   messages  |-> EtherAfterCollect(<<>>, grid, c.messages)],
                    !.deliveries = 0,
                    !.failures = @ + c.failures]

CollectOutcomes ==
    CollectFrom(obu_manager, Ascending(DOMAIN obu_manager.obus), 1,
                MaxFailures - flight.failures)

\* run(rounds) up to its for loop: the first collection when round is 0
RunBegin ==
    /\ pc = "idle"
    /\ \E rounds \in 0 .. MaxRounds - round :
         /\ rounds_left' = rounds
         /\ IF round = 0
            THEN \E c \in CollectOutcomes :
                   /\ CollectMessages(c, round)
                   /\ pc' = IF c.hung THEN "hung"
                            ELSE IF rounds > 0 THEN "deliver" ELSE "finish"
            ELSE /\ pc' = IF rounds > 0 THEN "deliver" ELSE "finish"
                 /\ UNCHANGED <<ether, flight>>
    /\ last_result' = None
    /\ report' = None
    /\ UNCHANGED <<grid, obu_manager, rsu_manager, round>>

\* (a) deliver_messages: to the OBUs, then to the RSUs
DeliverPhase ==
    /\ pc = "deliver"
    /\ obu_manager' = ObuDeliverMessages(obu_manager, ether)
    /\ IF RoundAlreadyInVector(rsu_manager)
       THEN /\ pc' = "panicked"
            /\ UNCHANGED <<rsu_manager, flight>>
       ELSE /\ pc' = NextPhase(pc)
            /\ rsu_manager' = RsuDeliverMessages(rsu_manager, ether)
            /\ flight' = [flight EXCEPT !.iteration = @ + 1,
                                        !.deliveries = @ + 1,
                                        !.delivered = Some(ether)]
    /\ UNCHANGED <<grid, round, ether, rounds_left, last_result, report>>

\* (b) do_obus_moves
MovePhase ==
    /\ pc = "move"
    /\ \E moved \in DoObusMoves(grid, obu_manager.obus, DOMAIN obu_manager.obus) :
         /\ grid' = moved.grid
         /\ obu_manager' = [obu_manager EXCEPT !.obus = moved.obus]
    /\ pc' = NextPhase(pc)
    /\ UNCHANGED <<rsu_manager, round, ether, rounds_left, last_result, report, flight>>

\* (c) the top-up loop
TopUpPhase ==
    /\ pc = "topup"
    /\ LET topped == TopUp(grid, obu_manager)
       IN  /\ grid' = topped.grid
           /\ obu_manager' = topped.mgr
    /\ pc' = NextPhase(pc)
    /\ UNCHANGED <<rsu_manager, round, ether, rounds_left, last_result, report, flight>>

\* (d) the round counter and the managers' copies of it
AdvancePhase ==
    /\ pc = "advance"
    /\ round' = round + 1
    /\ rsu_manager' = [rsu_manager EXCEPT !.current_round = round + 1]
    /\ obu_manager' = [obu_manager EXCEPT !.current_round = round + 1]
    /\ pc' = NextPhase(pc)
    /\ UNCHANGED <<grid, ether, rounds_left, last_result, report, flight>>

\* (e) collect_messages, then the loop's next iteration or its end
CollectPhase ==
    /\ pc = "collect"
    /\ rounds_left' = rounds_left - 1
    /\ \E c \in CollectOutcomes :
         /\ CollectMessages(c, round)
         /\ pc' = IF c.hung THEN "hung"
                  ELSE IF rounds_left' > 0 THEN NextPhase(pc) ELSE "finish"
    /\ UNCHANGED <<grid, obu_manager, rsu_manager, round, last_result, report>>

\* the end of run: the detector and the confusion matrix
FinishRun ==
    /\ pc = "finish"
    /\ IF DetectorPanics(ObservedObus(rsu_manager.obu_observations))
       THEN /\ pc' = "panicked"
            /\ UNCHANGED report
       ELSE /\ pc' = "idle"
            /\ LET found == FindFaultyObus(rsu_manager)
                   matrix == ConfusionMatrix(obu_manager.obus, found.faulty_obus)
               IN  report' = Some(found @@ matrix @@ FinalStats(matrix))
    /\ UNCHANGED <<grid, obu_manager, rsu_manager, round, ether, rounds_left,
                   last_result, flight>>

\* the configurations the simulator is run with
SimGridParams == {[blocks_per_street |-> 1, block_size |-> 2]}
SimRsuRanges == {1}
SimCommsRanges == {2}
SimFaultyObus == {0, 1}
SimDetect == {[tx |-> TRUE, gps |-> FALSE]}

Init ==
    /\ \E gp \in SimGridParams, r \in SimRsuRanges, cr \in SimCommsRanges,
          max_obus \in 1 .. MaxSimObus, faulty_obus \in SimFaultyObus,
          detect \in SimDetect :
            SimulatorNew(gp,
                         [tx_range |-> r, rx_range |-> r,
                          detect_obu_tx_failure |-> detect.tx,
                          detect_obu_gps_failure |-> detect.gps],
                         [max_obus |-> max_obus, comms_range |-> cr,
                          faulty_obus |-> faulty_obus])
    /\ pc = "new"
    /\ rounds_left = 0
    /\ last_result = None
    /\ report = None
    /\ flight = NoFlight

Next ==
    \/ SimInit
    \/ CallAddOnBoardUnit
    \/ RunBegin
    \/ DeliverPhase
    \/ MovePhase
    \/ TopUpPhase
    \/ AdvancePhase
    \/ CollectPhase
    \/ FinishRun

Spec == Init /\ [][Next]_vars

\* the same runs for each setting of the two detectors, at the largest
\* population
InitDetect ==
    /\ \E gp \in SimGridParams, r \in SimRsuRanges, cr \in SimCommsRanges,
          dtx \in BOOLEAN, dgps \in BOOLEAN :
            SimulatorNew(gp,
                         [tx_range |-> r, rx_range |-> r,
                          detect_obu_tx_failure |-> dtx,
                          detect_obu_gps_failure |-> dgps],
                         [max_obus |-> MaxSimObus, comms_range |-> cr,
                          faulty_obus |-> 1])
    /\ pc = "new"
    /\ rounds_left = 0
    /\ last_result = None
    /\ report = None
    /\ flight = NoFlight

SpecDetect == InitDetect /\ [][Next]_vars

-----------------------------------------------------------------------------
(* Construction and init() over a family of grids and RSU ranges           *)

InitConstruct ==
    /\ \E blocks_per_street \in 0 .. MaxBlocksPerStreet,
          block_size \in 0 .. MaxBlockSize,
          rx_range \in 1 .. MaxRxRange :
            SimulatorNew([blocks_per_street |-> blocks_per_street,
                          block_size |-> block_size],
                         [tx_range |-> rx_range, rx_range |-> rx_range,
                          detect_obu_tx_failure |-> FALSE,
                          detect_obu_gps_failure |-> FALSE],
                         [max_obus |-> 2, comms_range |-> 2, faulty_obus |-> 0])
    /\ pc = "new"
    /\ rounds_left = 0
    /\ last_result = None
    /\ report = None
    /\ flight = NoFlight

NextConstruct == SimInit

SpecConstruct == InitConstruct /\ [][NextConstruct]_vars

-----------------------------------------------------------------------------
(* The OBU manager on its own, as its unit tests drive it                  *)

CreateCoordinates == {Coordinate(1, 2), Coordinate(3, 4)}

InitCreate ==
    /\ \E max_obus \in 0 .. MaxCap, faulty_obus \in 0 .. MaxCap :
          obu_manager = ObuManagerNew(max_obus, 1, faulty_obus, 0)
    /\ grid = GridNew(0, 0)
    /\ rsu_manager = RsuManagerNew(1, 1, FALSE, FALSE)
    /\ round = 0
    /\ ether = <<>>
    /\ pc = "manager"
    /\ rounds_left = 0
    /\ last_result = None
    /\ report = None
    /\ flight = NoFlight

\* a call of create_obu
CallCreateObu ==
    /\ pc = "manager"
    /\ \E coordinate \in CreateCoordinates :
         IF CreateObuPanics(obu_manager)
         THEN /\ pc' = "panicked"
              /\ UNCHANGED <<obu_manager, last_result>>
         ELSE /\ obu_manager' = CreateObu(obu_manager, coordinate).mgr
              /\ last_result' = CreateObu(obu_manager, coordinate).result
              /\ pc' = pc
    /\ UNCHANGED <<grid, rsu_manager, round, ether, rounds_left, report, flight>>

NextCreate == CallCreateObu

SpecCreate == InitCreate /\ [][NextCreate]_vars

-----------------------------------------------------------------------------
(* Properties of the simulator's runs (Spec)                               *)

Cells == {Coordinate(x, y) : x \in 0 .. grid.dimension - 1,
                             y \in 0 .. grid.dimension - 1}

OccupiedCells == {c \in Cells : GetCellState(grid, c).obu_id # None}

\* C1 -- occupancy bijection: in every reachable state each occupied cell
\* records the id of a live OBU whose stored coordinate is that cell, and
\* each live OBU's stored coordinate is a cell that records its id.
OccupancyBijection ==
    /\ \A c \in OccupiedCells :
         LET id == GetCellState(grid, c).obu_id[1]
         IN  /\ id \in DOMAIN obu_manager.obus
             /\ obu_manager.obus[id].coordinate = c
    /\ \A id \in DOMAIN obu_manager.obus :
         LET c == obu_manager.obus[id].coordinate
         IN  /\ c \in Cells
             /\ GetCellState(grid, c).obu_id = Some(id)

\* C1, the state the failing input reaches: a cell marked with the id of an
\* OBU that create_obu refused to create
GhostOccupant ==
    /\ last_result = None
    /\ ObusLen(obu_manager) = obu_manager.max_obus
    /\ \E c \in OccupiedCells :
         GetCellState(grid, c).obu_id = Some(obu_manager.next_id)

\* C2 -- one-round propagation latency: the phases of an iteration follow
\* in the order deliver, move, top up, advance, collect, each state change
\* happening in its own phase; what a delivery hands over is exactly the
\* last collection, which was made in the previous iteration (or before
\* the loop) and has not been delivered before.
OneRoundLatency ==
    [][ /\ pc = "deliver" => pc' \in {"move", "panicked"}
        /\ pc = "move" => pc' = "topup"
        /\ pc = "topup" => pc' = "advance"
        /\ pc = "advance" => pc' = "collect"
        /\ pc = "collect" => pc' \in {"deliver", "finish", "hung"}
        /\ pc' = "deliver" => pc \in {"idle", "collect"}
        /\ ether' # ether => pc \in {"idle", "collect"}
        /\ round' # round => pc = "advance" /\ round' = round + 1
        /\ grid' # grid => pc \in {"new", "idle", "move", "topup"}
        /\ (\/ rsu_manager'.obu_observations # rsu_manager.obu_observations
            \/ \E id \in DOMAIN obu_manager.obus :
                 /\ id \in DOMAIN obu_manager'.obus
                 /\ obu_manager'.obus[id].neighbors # obu_manager.obus[id].neighbors)
           => pc = "deliver"
        /\ (pc = "deliver" /\ pc' = "move")
           => /\ ether = flight.in_flight.messages
              /\ flight.deliveries = 0
              /\ flight'.deliveries = 1
              /\ flight'.delivered = Some(flight.in_flight.messages)
              /\ flight.in_flight.iteration = flight.iteration
              /\ flight'.iteration = flight.in_flight.iteration + 1
        /\ (pc = "collect" /\ pc' # "hung")
           => /\ ether' = flight'.in_flight.messages
              /\ flight'.in_flight.iteration = flight.iteration
              /\ flight'.deliveries = 0
      ]_vars

\* C2, its case: the second iteration has delivered a non-empty collection
\* made in the first
SecondDelivery ==
    /\ pc = "move"
    /\ flight.iteration = 2
    /\ flight.in_flight.iteration = 1
    /\ flight.delivered # None
    /\ Len(flight.delivered[1]) > 0
    /\ flight.deliveries = 1

\* C3 -- observation-history alignment: the history changes only by a
\* delivery appending one entry, entry i being appended while the RSU
\* manager's current round is i, and whenever an iteration of run's loop
\* has ended (and between run calls) its length is the round counter.
HistoryAligned ==
    [][ /\ rsu_manager'.obu_observations # rsu_manager.obu_observations
           => /\ pc = "deliver"
              /\ Len(rsu_manager'.obu_observations)
                   = Len(rsu_manager.obu_observations) + 1
              /\ SubSeq(rsu_manager'.obu_observations, 1,
                        Len(rsu_manager.obu_observations))
                   = rsu_manager.obu_observations
              /\ Len(rsu_manager.obu_observations) = rsu_manager.current_round
        /\ (pc = "deliver" /\ pc' = "move")
           => Len(rsu_manager'.obu_observations) = round + 1
        /\ pc' \in {"deliver", "finish", "idle"}
           => Len(rsu_manager'.obu_observations) = round'
      ]_vars

\* C3, its case: two run calls of one round each have returned
HistoryAfterTwoRuns ==
    /\ pc = "idle"
    /\ round = 2
    /\ Len(rsu_manager.obu_observations) = 2
    /\ flight.iteration = 2
    /\ rounds_left = 0
    /\ report # None

Accepted(neighbors, message) ==
    \E k \in 1 .. Len(neighbors) : neighbors[k] = NeighborEntry(message)

\* C13 -- neighbor acceptance by box overlap: an RSU, and an OBU other
\* than the sender, holds a delivered message as a neighbor entry iff the
\* message's coverage box overlaps the receiver's own coverage box.
AcceptedIffBoxesOverlap ==
    (pc = "move" /\ flight.delivered # None)
    => \A k \in 1 .. Len(flight.delivered[1]) :
         LET message == flight.delivered[1][k]
         IN  /\ \A id \in DOMAIN rsu_manager.rsus :
                  Accepted(rsu_manager.rsus[id].neighbors, message)
                  <=> CheckOverlapingSquares(
                          message.phy_area,
                          GetSquareCords(grid, rsu_manager.rsus[id].coordinate,
                                         rsu_manager.rx_range))
             /\ \A id \in DOMAIN obu_manager.obus \ {message.origin_id} :
                  Accepted(obu_manager.obus[id].neighbors, message)
                  <=> CheckOverlapingSquares(
                          message.phy_area,
                          GetSquareCords(grid, obu_manager.obus[id].coordinate,
                                         obu_manager.obus[id].tx_range))

\* C13, the state the failing input reaches: an RSU holds a delivered
\* message whose coverage box does not touch the RSU's own box
AcceptedOutsideBox ==
    /\ pc = "move"
    /\ flight.delivered # None
    /\ \E k \in 1 .. Len(flight.delivered[1]), id \in DOMAIN rsu_manager.rsus :
         /\ Accepted(rsu_manager.rsus[id].neighbors, flight.delivered[1][k])
         /\ ~CheckOverlapingSquares(
                flight.delivered[1][k].phy_area,
                GetSquareCords(grid, rsu_manager.rsus[id].coordinate,
                               rsu_manager.rx_range))

\* C14 -- the ether is rebuilt by every collection: it holds exactly the
\* messages of the most recent collection, at most one per existing OBU,
\* so it is never larger than the population.
EtherRebuilt ==
    /\ ether = flight.in_flight.messages
    /\ Len(ether) <= ObusLen(obu_manager)
    /\ \A k \in 1 .. Len(ether) :
         /\ ether[k].origin_type = "OBU"
         /\ ether[k].origin_id \in DOMAIN obu_manager.obus
         /\ \A j \in 1 .. Len(ether) :
              ether[j].origin_id = ether[k].origin_id => j = k

\* C14, its case: a collection made while the ether still held the
\* messages just delivered, and leaving fewer messages than it found
EtherShrunk ==
    /\ pc \in {"deliver", "finish"}
    /\ flight.in_flight.iteration >= 1
    /\ flight.delivered # None
    /\ Len(flight.delivered[1]) > 0
    /\ Len(ether) < Len(flight.delivered[1])

IsProperRate(rate) == rate.den > 0 /\ 0 <= rate.num /\ rate.num <= rate.den

\* C17 -- confusion-matrix sanity: after a completed run (and before any
\* further OBU is added) the four counts add up to the number of OBUs, and
\* with a non-empty faulty and a non-empty non-faulty population each of
\* the three rates has a non-zero denominator and a numerator not above it.
ConfusionMatrixSane ==
    (pc = "idle" /\ report # None /\ last_result = None)
    => /\ report[1].true_positive + report[1].false_positive
            + report[1].true_negative + report[1].false_negative
          = ObusLen(obu_manager)
       /\ (/\ \E id \in DOMAIN obu_manager.obus : obu_manager.obus[id].is_faulty
           /\ \E id \in DOMAIN obu_manager.obus : ~obu_manager.obus[id].is_faulty)
          => /\ IsProperRate(report[1].detection_rate)
             /\ IsProperRate(report[1].false_positive_rate)
             /\ IsProperRate(report[1].false_negative_rate)

\* C17, its case: a completed run over one faulty and one healthy OBU in
\* which the faulty one went unreported
RunMissedTheFaulty ==
    /\ pc = "idle"
    /\ report # None
    /\ last_result = None
    /\ ObusLen(obu_manager) = 2
    /\ report[1].false_negative = 1
    /\ report[1].true_negative = 1
    /\ report[1].false_negative_rate = [num |-> 1, den |-> 1]
    /\ report[1].detection_rate = [num |-> 1, den |-> 2]

\* C18 -- the detector completes for every observation history: whenever a
\* run reaches find_faulty_obus, the call returns and the run ends with its
\* report, also when no OBU or exactly one OBU was ever observed.
DetectorCompletes ==
    [][pc = "finish" => pc' = "idle"]_vars

\* a run died in the detector although one OBU had been observed
DetectorDiedOnSingleObu ==
    /\ pc = "panicked"
    /\ rounds_left = 0
    /\ Len(rsu_manager.obu_observations) > 0
    /\ Cardinality(ObservedObus(rsu_manager.obu_observations)) = 1
    /\ report = None


-----------------------------------------------------------------------------
(* Properties of the detector's report (SpecDetect)                        *)

TxFinds(rep, id) ==
    /\ rsu_manager.detect_obu_tx_failure
    /\ FracGeq(rep.error_stats[id].tx_error_rate, rep.tx_threshold)

GpsFinds(rep, id) ==
    /\ rsu_manager.detect_obu_gps_failure
    /\ FracGeq(rep.error_stats[id].gps_error_rate, rep.gps_threshold)

\* C4 as stated -- with a detector enabled, an observed OBU is reported
\* faulty iff each enabled detector finds its rate at or above that
\* channel's threshold (with both enabled: only when both do).
ReportedIffEachEnabledFinds ==
    (report # None /\ (rsu_manager.detect_obu_tx_failure
                       \/ rsu_manager.detect_obu_gps_failure))
    => \A id \in DOMAIN report[1].error_stats :
          id \in report[1].faulty_obus
          <=> /\ rsu_manager.detect_obu_tx_failure => TxFinds(report[1], id)
              /\ rsu_manager.detect_obu_gps_failure => GpsFinds(report[1], id)

\* C4 amended -- an observed OBU is reported faulty iff at least one
\* enabled detector finds its rate at or above that channel's threshold;
\* with no detector enabled no OBU is reported.
ReportedIffSomeEnabledFinds ==
    report # None
    => \A id \in DOMAIN report[1].error_stats :
          id \in report[1].faulty_obus
          <=> (TxFinds(report[1], id) \/ GpsFinds(report[1], id))

\* C4, its case: both detectors enabled, and an OBU reported whose
\* transmission rate is below the transmission threshold
ReportedByGpsAlone ==
    /\ report # None
    /\ rsu_manager.detect_obu_tx_failure
    /\ rsu_manager.detect_obu_gps_failure
    /\ \E id \in report[1].faulty_obus :
         /\ ~TxFinds(report[1], id)
         /\ GpsFinds(report[1], id)

\* the rounds (1-based history positions) in which obu_id was sighted
RoundsSighted(obu_id) ==
    {i \in 1 .. Len(rsu_manager.obu_observations) :
        obu_id \in DOMAIN rsu_manager.obu_observations[i]}

\* some RSU that sighted the OBU is within rx_range + 3 of the reported place
ObserverNear(sightings) ==
    \E k \in 1 .. Len(sightings) :
        Sq(sightings[k].coordinate.x - rsu_manager.rsus[sightings[k].rsu_id].coordinate.x)
          + Sq(sightings[k].coordinate.y - rsu_manager.rsus[sightings[k].rsu_id].coordinate.y)
        <= Sq(rsu_manager.rx_range + 3)

\* C23 -- GPS plausibility: the detector counts one GPS error for a round
\* in which an OBU was sighted iff no observing RSU is within rx_range + 3
\* of the OBU's reported coordinate; a round with an observing RSU within
\* that distance counts none.
GpsErrorIffNoObserverNear ==
    (pc = "idle" /\ report # None)
    => \A id \in DOMAIN report[1].error_stats :
          report[1].error_stats[id].gps_error_count
            = Cardinality({i \in RoundsSighted(id) :
                             ~ObserverNear(rsu_manager.obu_observations[i][id])})

\* a GPS error was counted for an OBU sighted in one round only, in which
\* an observing RSU was within rx_range + 3 of the reported coordinate
GpsErrorDespiteNearObserver ==
    /\ pc = "idle"
    /\ report # None
    /\ \E id \in DOMAIN report[1].error_stats :
         /\ report[1].error_stats[id].gps_error_count = 1
         /\ Cardinality(RoundsSighted(id)) = 1
         /\ \A i \in RoundsSighted(id) :
               ObserverNear(rsu_manager.obu_observations[i][id])

-----------------------------------------------------------------------------
(* Properties of the OBU manager (SpecCreate)                              *)

FaultyObus == {id \in DOMAIN obu_manager.obus : obu_manager.obus[id].is_faulty}

TargetConfigured ==
    /\ 1 <= obu_manager.faulty_obus
    /\ obu_manager.faulty_obus <= obu_manager.max_obus

\* C5 -- fixed faulty cardinality: with 1 <= faulty_obus <= max_obus the
\* number of faulty OBUs never exceeds faulty_obus, and is exactly
\* faulty_obus once the population has reached max_obus.
FixedFaultyCardinality ==
    TargetConfigured
    => /\ Cardinality(FaultyObus) <= obu_manager.faulty_obus
       /\ ObusLen(obu_manager) = obu_manager.max_obus
          => Cardinality(FaultyObus) = obu_manager.faulty_obus

\* C5, its case: a full population whose cap the target does not divide
FullWithRemainder ==
    /\ obu_manager.max_obus = 7
    /\ obu_manager.faulty_obus = 3
    /\ ObusLen(obu_manager) = 7
    /\ Cardinality(FaultyObus) = 3

HasFaultyRates(obu) ==
    /\ obu.is_faulty
    /\ obu.tx_failure_rate = obu_manager.tx_faulty_obu_failure_rate
    /\ obu.gps_failure_rate = obu_manager.gps_faulty_obu_failure_rate

HasBaseRates(obu) ==
    /\ ~obu.is_faulty
    /\ obu.tx_failure_rate = obu_manager.tx_base_failure_rate
    /\ obu.gps_failure_rate = obu_manager.gps_failure_rate

\* the n-th OBU in creation order has id n - 1
EveryN == obu_manager.max_obus \div obu_manager.faulty_obus

\* C6 as stated -- with a target configured, every Nth OBU in creation
\* order (N = max_obus / faulty_obus) is faulty with the faulty rates and
\* every other OBU is non-faulty with the base rates.
EveryNthIsFaulty ==
    TargetConfigured
    => \A id \in DOMAIN obu_manager.obus :
          IF (id + 1) % EveryN = 0
          THEN HasFaultyRates(obu_manager.obus[id])
          ELSE HasBaseRates(obu_manager.obus[id])

\* C6 amended -- with a target configured, the first faulty_obus of the
\* OBUs whose creation index is a multiple of N are faulty with the faulty
\* rates; every other OBU is non-faulty with the base rates.
FirstNthsAreFaulty ==
    TargetConfigured
    => \A id \in DOMAIN obu_manager.obus :
          IF (id + 1) % EveryN = 0
             /\ (id + 1) \div EveryN <= obu_manager.faulty_obus
          THEN HasFaultyRates(obu_manager.obus[id])
          ELSE HasBaseRates(obu_manager.obus[id])

\* C6, its case: cap 3, target 2 (N = 1) and the third OBU created with
\* the base rates after two faulty ones
ThirdOfThreeIsHealthy ==
    /\ obu_manager.max_obus = 3
    /\ obu_manager.faulty_obus = 2
    /\ ObusLen(obu_manager) = 3
    /\ HasFaultyRates(obu_manager.obus[0])
    /\ HasFaultyRates(obu_manager.obus[1])
    /\ HasBaseRates(obu_manager.obus[2])

\* C7 -- population cap: the population never exceeds max_obus and never
\* loses an OBU; a create_obu call made at the cap returns None and leaves
\* the population, next_id and faulty_obus_added as they were.
PopulationCap ==
    [][ /\ ObusLen(obu_manager) <= obu_manager.max_obus
        /\ ObusLen(obu_manager') <= obu_manager'.max_obus
        /\ DOMAIN obu_manager.obus \subseteq DOMAIN obu_manager'.obus
        /\ ObusLen(obu_manager') >= ObusLen(obu_manager)
        /\ (pc = "manager" /\ ObusLen(obu_manager) = obu_manager.max_obus)
           => /\ last_result' = None
              /\ obu_manager'.obus = obu_manager.obus
              /\ obu_manager'.next_id = obu_manager.next_id
              /\ obu_manager'.faulty_obus_added = obu_manager.faulty_obus_added
      ]_vars

\* C7, its case: after the third OBU of three, a call that returned None
RefusedAtCap ==
    /\ pc = "manager"
    /\ obu_manager.max_obus = 3
    /\ ObusLen(obu_manager) = 3
    /\ obu_manager.next_id = 3
    /\ last_result = None

\* C19 -- degenerate configuration is rejected at construction: no manager
\* configured with more faulty OBUs than its cap gets as far as a
\* create_obu call that dies in the modulo by zero.
DegenerateConfigRejected ==
    pc = "panicked" => obu_manager.faulty_obus <= obu_manager.max_obus

\* the first create_obu of a manager with cap 1 and 2 faulty OBUs died
ModuloByZeroReached ==
    /\ pc = "panicked"
    /\ obu_manager.max_obus = 1
    /\ obu_manager.faulty_obus = 2
    /\ ObusLen(obu_manager) = 0

-----------------------------------------------------------------------------
(* Properties of construction and init (SpecConstruct)                     *)

\* the regular lattice points of one axis, and the border when the last
\* regular point leaves it uncovered
LatticeAxis(r, d) ==
    LET regular == {v \in 0 .. d - 1 :
                      v >= r - 1 /\ (v - (r - 1)) % (2 * r - 1) = 0}
    IN  IF regular # {}
           /\ (CHOOSE v \in regular : \A w \in regular : w <= v) + r < d
        THEN regular \cup {d - 1}
        ELSE regular

RsuCoordinates ==
    [k \in 1 .. Cardinality(DOMAIN rsu_manager.rsus) |->
        <<rsu_manager.rsus[k - 1].coordinate.x, rsu_manager.rsus[k - 1].coordinate.y>>]

OnGrid32(r) ==
    /\ grid.blocks_per_street = 3
    /\ grid.block_size = 2
    /\ rsu_manager.rx_range = r

\* C8 -- RSU lattice positions: after init the RSUs stand exactly on S x S,
\* S the lattice axis for rx_range and the dimension, with ids from 0 in
\* ascending x then ascending y; grid(3,2) gives the listed positions for
\* rx_range 3, 4 and 6.
LatticePositions ==
    pc = "idle"
    => LET S == Ascending(LatticeAxis(rsu_manager.rx_range, grid.dimension))
           n == Len(S)
       IN  /\ DOMAIN rsu_manager.rsus = 0 .. n * n - 1
           /\ rsu_manager.next_id = n * n
           /\ \A id \in DOMAIN rsu_manager.rsus :
                /\ rsu_manager.rsus[id].id = id
                /\ rsu_manager.rsus[id].coordinate
                     = Coordinate(S[(id \div n) + 1], S[(id % n) + 1])
           /\ OnGrid32(3) => RsuCoordinates = << <<2, 2>>, <<2, 7>>, <<7, 2>>, <<7, 7>> >>
           /\ OnGrid32(4) => RsuCoordinates = << <<3, 3>>, <<3, 9>>, <<9, 3>>, <<9, 9>> >>
           /\ OnGrid32(6) => RsuCoordinates = << <<5, 5>> >>

\* C8, its case: grid(3,2) initialised with rx_range 3 and its four RSUs
FourRsusOnGrid32 ==
    /\ pc = "idle"
    /\ OnGrid32(3)
    /\ grid.dimension = 10
    /\ Cardinality(DOMAIN rsu_manager.rsus) = 4
    /\ rsu_manager.rsus[3].coordinate = Coordinate(7, 7)

InCoverageBox(rsu, c) ==
    /\ Abs(rsu.coordinate.x - c.x) <= rsu_manager.rx_range - 1
    /\ Abs(rsu.coordinate.y - c.y) <= rsu_manager.rx_range - 1

\* C9 -- RSU lattice coverage: with 1 <= rx_range <= dimension the
\* placement loop terminates, and after it every cell lies in the coverage
\* box of half-width rx_range - 1 of some RSU.
LatticeCoverage ==
    (1 <= rsu_manager.rx_range /\ rsu_manager.rx_range <= grid.dimension)
    => /\ pc # "hung"
       /\ pc = "idle"
          => \A c \in Cells :
                \E id \in DOMAIN rsu_manager.rsus :
                   InCoverageBox(rsu_manager.rsus[id], c)

\* C9, its case: grid(3,2) with rx_range 4, whose far edge only the
\* snapped row and column cover
SnappedToBorder ==
    /\ pc = "idle"
    /\ OnGrid32(4)
    /\ \E id \in DOMAIN rsu_manager.rsus :
         rsu_manager.rsus[id].coordinate = Coordinate(9, 9)
    /\ \A id \in DOMAIN rsu_manager.rsus :
         InCoverageBox(rsu_manager.rsus[id], Coordinate(9, 9))
         => rsu_manager.rsus[id].coordinate = Coordinate(9, 9)

\* C10 -- Grid::new: dimension = blocks_per_street * block_size +
\* blocks_per_street + 1, cell (i, j) is a street cell iff i or j is a
\* multiple of block_size + 1, and every cell starts unoccupied.
GridAsConstructed ==
    /\ grid.dimension
         = grid.blocks_per_street * grid.block_size + grid.blocks_per_street + 1
    /\ DOMAIN grid.cells = 0 .. grid.dimension - 1
    /\ \A i \in DOMAIN grid.cells :
         /\ DOMAIN grid.cells[i] = 0 .. grid.dimension - 1
         /\ \A j \in DOMAIN grid.cells[i] :
              /\ grid.cells[i][j].is_street
                 <=> (\E k \in 0 .. i : i = k * (grid.block_size + 1))
                     \/ (\E k \in 0 .. j : j = k * (grid.block_size + 1))
              /\ pc = "new" => grid.cells[i][j].obu_id = None

\* C10, its case: grid(3,2) as constructed, with a block cell and street
\* cells of a row and of a column
Grid32Constructed ==
    /\ pc = "new"
    /\ OnGrid32(rsu_manager.rx_range)
    /\ grid.dimension = 10
    /\ ~grid.cells[1][1].is_street
    /\ grid.cells[3][5].is_street
    /\ grid.cells[4][6].is_street
    /\ grid.cells[9][9].obu_id = None

-----------------------------------------------------------------------------
(* The range geometry called on its own: get_square_cords,                 *)
(* is_transmission_possible and check_overlaping_squares                   *)

GeometryGridParams == {[blocks_per_street |-> 1, block_size |-> 2],
                       [blocks_per_street |-> 3, block_size |-> 2]}

Boxes ==
    {[x1 |-> x1, y1 |-> y1, x2 |-> x2, y2 |-> y2] :
        x1 \in 0 .. MaxBoxCoord, y1 \in 0 .. MaxBoxCoord,
        x2 \in 0 .. MaxBoxCoord, y2 \in 0 .. MaxBoxCoord}

WellFormedBoxes == {b \in Boxes : b.x1 <= b.x2 /\ b.y1 <= b.y2}

InitGeometry ==
    /\ \E gp \in GeometryGridParams :
          grid = GridNew(gp.blocks_per_street, gp.block_size)
    /\ obu_manager = ObuManagerNew(0, 1, 0, grid.dimension)
    /\ rsu_manager = RsuManagerNew(1, 1, FALSE, FALSE)
    /\ round = 0
    /\ ether = <<>>
    /\ pc = "geometry"
    /\ rounds_left = 0
    /\ last_result = None
    /\ report = None
    /\ flight = NoFlight

GeometryFrame ==
    /\ pc' = "returned"
    /\ UNCHANGED <<grid, obu_manager, rsu_manager, round, ether, rounds_left,
                   last_result, flight>>

\* a call of get_square_cords on an in-grid coordinate
CallGetSquareCords ==
    /\ pc = "geometry"
    /\ \E x \in 0 .. grid.dimension - 1, y \in 0 .. grid.dimension - 1,
          range \in 1 .. MaxBoxRange :
         report' = Some([call       |-> "get_square_cords",
                         coordinate |-> Coordinate(x, y),
                         range      |-> range,
                         result     |-> GetSquareCords(grid, Coordinate(x, y), range)])
    /\ GeometryFrame

\* a call of Ether::is_transmission_possible between two in-grid cells
CallIsTransmissionPossible ==
    /\ pc = "geometry"
    /\ \E tx \in 0 .. grid.dimension - 1, ty \in 0 .. grid.dimension - 1,
          rx \in 0 .. grid.dimension - 1, ry \in 0 .. grid.dimension - 1,
          range \in 1 .. MaxBoxRange :
         report' = Some([call        |-> "is_transmission_possible",
                         transmitter |-> Coordinate(tx, ty),
                         range       |-> range,
                         receiver    |-> Coordinate(rx, ry),
                         result      |-> IsTransmissionPossible(Coordinate(tx, ty), range,
                                                                Coordinate(rx, ry))])
    /\ GeometryFrame

\* a call of check_overlaping_squares
CallCheckOverlapingSquares ==
    /\ pc = "geometry"
    /\ \E square1 \in WellFormedBoxes, square2 \in WellFormedBoxes :
         report' = Some([call    |-> "check_overlaping_squares",
                         square1 |-> square1,
                         square2 |-> square2,
                         result  |-> CheckOverlapingSquares(square1, square2)])
    /\ GeometryFrame

NextGeometry ==
    \/ CallGetSquareCords
    \/ CallIsTransmissionPossible
    \/ CallCheckOverlapingSquares

SpecGeometry == InitGeometry /\ [][NextGeometry]_vars

Returned(call) == pc = "returned" /\ report # None /\ report[1].call = call

Max(a, b) == IF a > b THEN a ELSE b

InBox(box, c) ==
    /\ box.x1 <= c.x /\ c.x <= box.x2
    /\ box.y1 <= c.y /\ c.y <= box.y2

\* C11 -- coverage box clamping: for an in-grid (x, y) and range r >= 1
\* get_square_cords returns x1 = max(0, x-(r-1)), y1 = max(0, y-(r-1)),
\* x2 = min(dimension-1, x+(r-1)), y2 = min(dimension-1, y+(r-1)); the box
\* lies inside the grid and contains (x, y).
CoverageBoxClamped ==
    Returned("get_square_cords")
    => LET c   == report[1].coordinate
           r   == report[1].range
           box == report[1].result
           d   == grid.dimension
       IN  /\ box.x1 = Max(0, c.x - (r - 1))
           /\ box.y1 = Max(0, c.y - (r - 1))
           /\ box.x2 = Min(d - 1, c.x + (r - 1))
           /\ box.y2 = Min(d - 1, c.y + (r - 1))
           /\ 0 <= box.x1 /\ box.x1 <= box.x2 /\ box.x2 <= d - 1
           /\ 0 <= box.y1 /\ box.y1 <= box.y2 /\ box.y2 <= d - 1
           /\ InBox(box, c)
           /\ (d = 10 /\ c = Coordinate(0, 0) /\ r = 5)
              => box = [x1 |-> 0, y1 |-> 0, x2 |-> 4, y2 |-> 4]
           /\ (d = 10 /\ c = Coordinate(9, 9) /\ r = 5)
              => box = [x1 |-> 5, y1 |-> 5, x2 |-> 9, y2 |-> 9]

\* C11, its case: the box of (9, 9) with range 5 in the dimension-10 grid,
\* clamped at the far border
BoxOfFarCorner ==
    /\ Returned("get_square_cords")
    /\ grid.dimension = 10
    /\ report[1].coordinate = Coordinate(9, 9)
    /\ report[1].range = 5
    /\ report[1].result = [x1 |-> 5, y1 |-> 5, x2 |-> 9, y2 |-> 9]
\* C12 -- the coverage box contains the circular footprint: whenever
\* is_transmission_possible(sender, r, receiver) is true, the receiver's
\* cell lies inside get_square_cords(sender, r).
BoxContainsFootprint ==
    (Returned("is_transmission_possible") /\ report[1].result)
    => InBox(GetSquareCords(grid, report[1].transmitter, report[1].range),
             report[1].receiver)

\* C12, the failing input: sender (0, 0) with range 1 reaches (1, 0),
\* which its box (0, 0, 0, 0) leaves out
ReachedOutsideBox ==
    /\ Returned("is_transmission_possible")
    /\ report[1].transmitter = Coordinate(0, 0)
    /\ report[1].range = 1
    /\ report[1].receiver = Coordinate(1, 0)
    /\ report[1].result
    /\ GetSquareCords(grid, Coordinate(0, 0), 1) = [x1 |-> 0, y1 |-> 0, x2 |-> 0, y2 |-> 0]

\* C16 -- overlap test: check_overlaping_squares(A, B) equals
\* check_overlaping_squares(B, A), and is true exactly when the two boxes
\* share at least one cell (boxes touching at an edge or corner overlap).
OverlapSymmetricAndExact ==
    Returned("check_overlaping_squares")
    => LET A == report[1].square1
           B == report[1].square2
       IN  /\ report[1].result = CheckOverlapingSquares(B, A)
           /\ report[1].result
              <=> \E x \in 0 .. MaxBoxCoord, y \in 0 .. MaxBoxCoord :
                     InBox(A, Coordinate(x, y)) /\ InBox(B, Coordinate(x, y))

\* C16, its case: two boxes that share one corner cell only
BoxesTouchAtCorner ==
    /\ Returned("check_overlaping_squares")
    /\ report[1].square1 = [x1 |-> 0, y1 |-> 0, x2 |-> 1, y2 |-> 1]
    /\ report[1].square2 = [x1 |-> 1, y1 |-> 1, x2 |-> 2, y2 |-> 2]
    /\ report[1].result

-----------------------------------------------------------------------------
(* The grid called on its own: insert_obu and move_obu                     *)

OccupiedIn(g) == {c \in Cells : GetCellState(g, c).obu_id # None}

InitMove ==
    /\ grid = UpdateNextCoordinates(GridNew(1, 1))
    /\ obu_manager = ObuManagerNew(MaxMoveObus, 1, 0, grid.dimension)
    /\ rsu_manager = RsuManagerNew(1, 1, FALSE, FALSE)
    /\ round = 0
    /\ ether = <<>>
    /\ pc = "grid"
    /\ rounds_left = 0
    /\ last_result = None
    /\ report = None
    /\ flight = NoFlight

\* a call of insert_obu with a fresh id
CallInsertObu ==
    /\ pc = "grid"
    /\ obu_manager.next_id < MaxMoveObus
    /\ grid' = InsertObu(grid, obu_manager.next_id).grid
    /\ last_result' = InsertObu(grid, obu_manager.next_id).result
    /\ obu_manager' = [obu_manager EXCEPT !.next_id = @ + 1]
    /\ UNCHANGED <<rsu_manager, round, ether, pc, rounds_left, report, flight>>

\* a call of move_obu(a, b) with a occupied, b unoccupied and a # b
CallMoveObu ==
    /\ pc = "grid"
    /\ \E a \in OccupiedIn(grid), b \in Cells \ OccupiedIn(grid) :
         /\ grid' = MoveObu(grid, a, b)
         /\ last_result' = Some([from |-> a, to |-> b])
    /\ UNCHANGED <<obu_manager, rsu_manager, round, ether, pc, rounds_left,
                   report, flight>>

NextMove == CallInsertObu \/ CallMoveObu

SpecMove == InitMove /\ [][NextMove]_vars

OccupantIds(g) == {GetCellState(g, c).obu_id[1] : c \in OccupiedIn(g)}

\* C15 -- move_obu preserves occupants: after move_obu(a, b) with a
\* occupied, b unoccupied and a # b, a is empty, b holds the id formerly
\* at a, every other cell and the street flag and successor list of a and
\* b are unchanged, and the number of occupied cells and the set of
\* occupant ids are what they were.
MovePreservesOccupants ==
    [][ (pc = "grid" /\ obu_manager' = obu_manager)
        => LET a == last_result'[1].from
               b == last_result'[1].to
           IN  /\ GetCellState(grid, a).obu_id # None
               /\ GetCellState(grid, b).obu_id = None
               /\ GetCellState(grid', a).obu_id = None
               /\ GetCellState(grid', b).obu_id = GetCellState(grid, a).obu_id
               /\ \A c \in Cells \ {a, b} :
                    GetCellState(grid', c) = GetCellState(grid, c)
               /\ \A c \in {a, b} :
                    /\ GetCellState(grid', c).id = GetCellState(grid, c).id
                    /\ GetCellState(grid', c).is_street = GetCellState(grid, c).is_street
                    /\ GetCellState(grid', c).next_coordinates
                         = GetCellState(grid, c).next_coordinates
               /\ Cardinality(OccupiedIn(grid')) = Cardinality(OccupiedIn(grid))
               /\ OccupantIds(grid') = OccupantIds(grid)
               /\ [grid' EXCEPT !.cells = grid.cells] = grid
      ]_vars

\* C15, its case: two occupants, the last call a move into a block cell,
\* and both ids still on the grid
MovedIntoBlock ==
    /\ pc = "grid"
    /\ last_result # None
    /\ "to" \in DOMAIN last_result[1]
    /\ last_result[1].to = Coordinate(1, 1)
    /\ GetCellState(grid, last_result[1].from).obu_id = None
    /\ OccupantIds(grid) = {0, 1}
    /\ Cardinality(OccupiedIn(grid)) = 2

-----------------------------------------------------------------------------
(* The RSU manager called by hand (rsu_manager.rs)                         *)

\* two RSUs, and the beacons of two OBUs, each next to one of them
RsuSites == <<Coordinate(0, 0), Coordinate(2, 0)>>

RsuMessages ==
    {<<>>} \cup {<<MessageNew(id, "OBU", RsuSites[id + 1],
                              RsuSites[id + 1], 1)>> : id \in 0 .. 1}

InitRsu ==
    /\ rsu_manager = CreateRsu(CreateRsu(RsuManagerNew(1, 1, TRUE, FALSE),
                                         RsuSites[1]),
                               RsuSites[2])
    /\ grid = GridNew(0, 0)
    /\ obu_manager = ObuManagerNew(0, 1, 0, 0)
    /\ round = 0
    /\ ether = <<>>
    /\ pc = "rsu"
    /\ rounds_left = 0
    /\ last_result = None
    /\ report = None
    /\ flight = NoFlight

\* a call of set_current_round
CallSetCurrentRound ==
    /\ pc = "rsu"
    /\ \E r \in 0 .. MaxSetRound :
         rsu_manager' = [rsu_manager EXCEPT !.current_round = r]
    /\ UNCHANGED <<grid, obu_manager, round, ether, pc, rounds_left,
                   last_result, report, flight>>

\* a call of deliver_messages; last_result remembers the round of the last
\* call that returned and how many calls in a row returned at that round
CallRsuDeliverMessages ==
    /\ pc = "rsu"
    /\ Len(rsu_manager.obu_observations) < MaxHistory
    /\ \E messages \in RsuMessages :
         IF RoundAlreadyInVector(rsu_manager)
         THEN /\ pc' = "panicked"
              /\ UNCHANGED <<rsu_manager, last_result>>
         ELSE /\ pc' = pc
              /\ rsu_manager' = RsuDeliverMessages(rsu_manager, messages)
              /\ last_result' =
                    Some([round |-> rsu_manager.current_round,
                          times |-> IF /\ last_result # None
                                       /\ last_result[1].round = rsu_manager.current_round
                                    THEN last_result[1].times + 1
                                    ELSE 1])
    /\ UNCHANGED <<grid, obu_manager, round, ether, rounds_left, report, flight>>

NextRsu == CallSetCurrentRound \/ CallRsuDeliverMessages

SpecRsu == InitRsu /\ [][NextRsu]_vars

\* C20 -- re-processing a round is fatal: a deliver_messages call made at
\* the round at which the previous call ran does not extend the history.
ReprocessingIsFatal ==
    [][ ( /\ pc = "rsu"
          /\ last_result # None
          /\ last_result[1].round = rsu_manager.current_round
          /\ rsu_manager'.current_round = rsu_manager.current_round )
        => rsu_manager'.obu_observations = rsu_manager.obu_observations ]_vars

\* round 1 was delivered twice in a row and both calls returned
RoundProcessedTwice ==
    /\ pc = "rsu"
    /\ rsu_manager.current_round = 1
    /\ last_result = Some([round |-> 1, times |-> 2])
    /\ Len(rsu_manager.obu_observations) = 2

-----------------------------------------------------------------------------
(* insert_obu called by hand while the occupants advance (grid.rs)         *)

InsertGridParams == {[blocks_per_street |-> 1, block_size |-> 1],
                     [blocks_per_street |-> 1, block_size |-> 2]}

InitInsert ==
    /\ \E gp \in InsertGridParams :
          grid = UpdateNextCoordinates(GridNew(gp.blocks_per_street, gp.block_size))
    /\ obu_manager = ObuManagerNew(MaxInsertObus, 1, 0, grid.dimension)
    /\ rsu_manager = RsuManagerNew(1, 1, FALSE, FALSE)
    /\ round = 0
    /\ ether = <<>>
    /\ pc = "insert"
    /\ rounds_left = 0
    /\ last_result = None
    /\ report = None
    /\ flight = NoFlight

\* a call of insert_obu; the id is consumed only when a cell was found, as
\* in add_on_board_unit
CallInsertNextObu ==
    /\ pc = "insert"
    /\ obu_manager.next_id < MaxInsertObus
    /\ LET inserted == InsertObu(grid, obu_manager.next_id)
       IN  /\ grid' = inserted.grid
           /\ last_result' = Some([obu_id |-> obu_manager.next_id,
                                   result |-> inserted.result])
           /\ obu_manager' = [obu_manager EXCEPT !.next_id =
                                 IF inserted.result = None THEN @ ELSE @ + 1]
    /\ UNCHANGED <<rsu_manager, round, ether, pc, rounds_left, report, flight>>

\* one occupant advances to one of its possible moves
CallMoveAlong ==
    /\ pc = "insert"
    /\ \E a \in OccupiedIn(grid) :
         \E k \in 1 .. Len(GetPossibleMoves(grid, a)) :
            grid' = MoveObu(grid, a, GetPossibleMoves(grid, a)[k])
    /\ last_result' = None
    /\ UNCHANGED <<obu_manager, rsu_manager, round, ether, pc, rounds_left,
                   report, flight>>

NextInsert == CallInsertNextObu \/ CallMoveAlong

SpecInsert == InitInsert /\ [][NextInsert]_vars

\* the lane-entry cells in the order of the claim: street indices
\* ascending, the column-axis lane's upstream cell before the row-axis one
ColumnEntry(g, s) ==
    Coordinate(s, IF GetFlowDirection(s, TRUE) = "FromZero" THEN 0 ELSE g.dimension - 1)

RowEntry(g, s) ==
    Coordinate(IF GetFlowDirection(s, FALSE) = "FromZero" THEN 0 ELSE g.dimension - 1, s)

RECURSIVE LaneEntries(_, _)
LaneEntries(g, s) ==
    IF s >= g.dimension THEN <<>>
    ELSE (IF s % (g.block_size + 1) = 0
          THEN <<ColumnEntry(g, s), RowEntry(g, s)>> ELSE <<>>)
         \o LaneEntries(g, s + 1)

FreeLaneEntries(g) ==
    SelectSeq(LaneEntries(g, 0), LAMBDA c : GetCellState(g, c).obu_id = None)

\* C21 -- insert_obu marks the first free lane-entry cell (streets
\* ascending, column lane before row lane at each street) with the given
\* id and returns its coordinate; it returns nothing and leaves the grid
\* as it was exactly when every lane-entry cell is occupied.
InsertsAtFirstFreeLaneEntry ==
    [][ last_result' # None
        => LET free   == FreeLaneEntries(grid)
               obu_id == last_result'[1].obu_id
               result == last_result'[1].result
           IN  IF free = <<>>
               THEN result = None /\ grid' = grid
               ELSE /\ result = Some(free[1])
                    /\ grid' = [grid EXCEPT !.cells[free[1].x][free[1].y].obu_id =
                                   Some(obu_id)]
      ]_vars

\* C21, its case: on the grid of dimension 3, where cell (0, 2) is the entry
\* of two lanes, the three lane-entry cells are occupied and the last call
\* returned nothing
RefusedWhenSaturated ==
    /\ pc = "insert"
    /\ grid.dimension = 3
    /\ FreeLaneEntries(grid) = <<>>
    /\ last_result # None
    /\ last_result[1].result = None
    /\ Cardinality(OccupiedIn(grid)) = 3

-----------------------------------------------------------------------------
(* calculate_mad called on its own (rsu_manager.rs)                        *)

\* the vector of test_calculate_mad_1, in hundredths
ReferenceSample ==
    [k \in 1 .. 10 |->
        Frac(<<123, 356, 789, 12, 456, 901, 234, 678, 1012, 567>>[k], 100)]

SampleValues == {Frac(v, 2) : v \in 0 .. MaxSampleValue}

MadSamples ==
    {ReferenceSample}
      \cup UNION {[1 .. n -> SampleValues] : n \in 1 .. MaxSampleLen}

InitMad ==
    /\ grid = GridNew(0, 0)
    /\ obu_manager = ObuManagerNew(0, 1, 0, 0)
    /\ rsu_manager = RsuManagerNew(1, 1, FALSE, FALSE)
    /\ round = 0
    /\ ether = <<>>
    /\ pc = "mad"
    /\ rounds_left = 0
    /\ last_result = None
    /\ report = None
    /\ flight = NoFlight

\* a call of calculate_mad on a non-empty sample
CallCalculateMad ==
    /\ pc = "mad"
    /\ \E values \in MadSamples :
         report' = Some([call   |-> "calculate_mad",
                         values |-> values,
                         result |-> CalculateMad(values)])
    /\ pc' = "returned"
    /\ UNCHANGED <<grid, obu_manager, rsu_manager, round, ether, rounds_left,
                   last_result, flight>>

NextMad == CallCalculateMad

SpecMad == InitMad /\ [][NextMad]_vars

\* the k-th smallest value of a sample, by counting
KthSmallest(values, k) ==
    CHOOSE v \in {values[i] : i \in 1 .. Len(values)} :
        /\ Cardinality({i \in 1 .. Len(values) : FracLess(values[i], v)}) < k
        /\ Cardinality({i \in 1 .. Len(values) : ~FracLess(v, values[i])}) >= k

\* the median: the middle element for odd sizes, the average of the two
\* central elements for even sizes
MedianOf(values) ==
    LET n == Len(values)
    IN  IF n % 2 = 1
        THEN KthSmallest(values, (n + 1) \div 2)
        ELSE FracMul(FracAdd(KthSmallest(values, n \div 2),
                             KthSmallest(values, (n \div 2) + 1)), Frac(1, 2))

AbsoluteDeviations(values) ==
    [k \in 1 .. Len(values) |-> FracAbs(FracSub(values[k], MedianOf(values)))]

\* C22 -- calculate_mad returns 1.4826 times the median of the absolute
\* deviations from the sample median (middle element for odd sizes, average
\* of the two central elements for even sizes) for every non-empty sample;
\* for the reference sample the result is within 0.001 of 4.115.
MadIsScaledMedianDeviation ==
    Returned("calculate_mad")
    => /\ report[1].result
            = FracMul(Frac(14826, 10000), MedianOf(AbsoluteDeviations(report[1].values)))
       /\ report[1].values = ReferenceSample
            => FracLess(FracAbs(FracSub(report[1].result, Frac(4115, 1000))),
                        Frac(1, 1000))

\* C22, its case: an even-sized sample whose two central elements differ and
\* whose two central deviations differ
MadOfEvenSample ==
    /\ Returned("calculate_mad")
    /\ report[1].values = <<Frac(0, 1), Frac(1, 2), Frac(1, 1), Frac(2, 1)>>
    /\ report[1].result = FracMul(Frac(14826, 10000), Frac(1, 2))

-----------------------------------------------------------------------------
(* Properties of the detector's thresholds (SpecDetect)                    *)

\* the sample of one channel: the rate of every observed OBU
RateSample(rep, channel) ==
    LET ids == Ascending(DOMAIN rep.error_stats)
    IN  [k \in 1 .. Len(ids) |-> rep.error_stats[ids[k]][channel]]

MedianPlusThreeMad(values) ==
    FracAdd(MedianOf(values),
            FracMul(Frac(3, 1),
                    FracMul(Frac(14826, 10000), MedianOf(AbsoluteDeviations(values)))))

\* C24 -- per-channel threshold: the threshold of each channel equals the
\* median of that channel's sample (middle element for odd sizes, average of
\* the two central elements for even sizes) plus 3 times its scaled MAD.
ThresholdIsMedianPlusThreeMad ==
    (pc = "idle" /\ report # None)
    => /\ report[1].tx_threshold
            = MedianPlusThreeMad(RateSample(report[1], "tx_error_rate"))
       /\ report[1].gps_threshold
            = MedianPlusThreeMad(RateSample(report[1], "gps_error_rate"))

\* two observed OBUs with GPS error rates 0 and 1, and a GPS threshold of
\* 0 + 3 * 1.4826 * 1/2
ThresholdFromLowerElement ==
    /\ pc = "idle"
    /\ report # None
    /\ RateSample(report[1], "gps_error_rate") \in
          {<<Frac(0, 1), Frac(1, 1)>>, <<Frac(1, 1), Frac(0, 1)>>}
    /\ report[1].gps_threshold = Frac(3 * 7413, 10000)

\* the rounds from the first sighting of obu_id to the end of the history
\* in which it was not sighted
RoundsMissed(obu_id) ==
    {i \in 1 .. Len(rsu_manager.obu_observations) :
        /\ i \notin RoundsSighted(obu_id)
        /\ \E j \in RoundsSighted(obu_id) : j < i}

\* C25 -- transmission-error count: for every observed OBU the count is the
\* number of history entries minus (rounds sighted + index of the first
\* round sighted), which is the number of rounds after its first sighting
\* in which it was not sighted, and the rate is the count over the current
\* round.
TxErrorCountsMissedRounds ==
    (pc = "idle" /\ report # None)
    => \A id \in DOMAIN report[1].error_stats :
         LET stats == report[1].error_stats[id]
             first == CHOOSE i \in RoundsSighted(id) :
                         \A j \in RoundsSighted(id) : i <= j
         IN  /\ stats.tx_error_count
                  = Len(rsu_manager.obu_observations)
                      - (Cardinality(RoundsSighted(id)) + (first - 1))
             /\ stats.tx_error_count = Cardinality(RoundsMissed(id))
             /\ rsu_manager.current_round > 0
             /\ stats.tx_error_rate.n * rsu_manager.current_round
                  = stats.tx_error_count * stats.tx_error_rate.d

\* C25, its case: after two rounds one OBU was first sighted in the second
\* round and has no miss, another was sighted in the first round only and
\* has one miss in two rounds
MissedAfterFirstSighting ==
    /\ pc = "idle"
    /\ report # None
    /\ Len(rsu_manager.obu_observations) = 2
    /\ \E a, b \in DOMAIN report[1].error_stats :
         /\ RoundsSighted(a) = {2}
         /\ report[1].error_stats[a].tx_error_count = 0
         /\ RoundsSighted(b) = {1}
         /\ report[1].error_stats[b].tx_error_rate = Frac(1, 2)

-----------------------------------------------------------------------------
(* The detector called after rounds delivered by hand (rsu_manager.rs)     *)

\* three OBUs next to the RSU at (0, 0); a spoofed beacon reports (5, 0),
\* farther than rx_range + 3 from that RSU
LedgerObus == {0, 1, 2}
LedgerSpoof == Coordinate(5, 0)

LedgerBeacon(id, kind) ==
    IF kind = "none" THEN <<>>
    ELSE <<MessageNew(id, "OBU",
                      IF kind = "spoofed" THEN LedgerSpoof ELSE RsuSites[1],
                      RsuSites[1], 1)>>

InitLedger ==
    /\ rsu_manager = CreateRsu(CreateRsu(RsuManagerNew(1, 1, TRUE, TRUE),
                                         RsuSites[1]),
                               RsuSites[2])
    /\ grid = GridNew(0, 0)
    /\ obu_manager = ObuManagerNew(0, 1, 0, 0)
    /\ round = 0
    /\ ether = <<>>
    /\ pc = "ledger"
    /\ rounds_left = 0
    /\ last_result = None
    /\ report = None
    /\ flight = NoFlight

\* one round as run drives the RSU manager: deliver_messages, then
\* set_current_round with the next round
CallDeliverAndAdvance ==
    /\ pc = "ledger"
    /\ Len(rsu_manager.obu_observations) < MaxLedgerRounds
    /\ \E kinds \in [LedgerObus -> {"none", "sent", "spoofed"}] :
         LET messages == LedgerBeacon(0, kinds[0]) \o LedgerBeacon(1, kinds[1])
                           \o LedgerBeacon(2, kinds[2])
         IN  rsu_manager' =
               [RsuDeliverMessages(rsu_manager, messages)
                  EXCEPT !.current_round = rsu_manager.current_round + 1]
    /\ UNCHANGED <<grid, obu_manager, round, ether, pc, rounds_left,
                   last_result, report, flight>>

\* a call of find_faulty_obus
CallFindFaultyObus ==
    /\ pc = "ledger"
    /\ IF DetectorPanics(ObservedObus(rsu_manager.obu_observations))
       THEN /\ pc' = "panicked"
            /\ UNCHANGED report
       ELSE /\ pc' = "returned"
            /\ report' = Some(FindFaultyObus(rsu_manager) @@ [call |-> "find_faulty_obus"])
    /\ UNCHANGED <<grid, obu_manager, rsu_manager, round, ether, rounds_left,
                   last_result, flight>>

NextLedger == CallDeliverAndAdvance \/ CallFindFaultyObus

SpecLedger == InitLedger /\ [][NextLedger]_vars

\* the class of a quotient rate / threshold as the claim words it; the
\* quotient of a zero threshold is +inf for a positive rate and NaN, which
\* compares false, for a zero rate
ClassOfQuotient(rate, threshold) ==
    IF threshold.n = 0
    THEN IF rate.n > 0 THEN 0 ELSE 2
    ELSE LET quotient == Frac(rate.n * threshold.d, rate.d * threshold.n)
         IN  IF ~FracLess(quotient, Frac(1, 1)) THEN 0
             ELSE IF ~FracLess(quotient, Frac(6, 10)) THEN 1
             ELSE 2

\* C26 -- reputation classes: for each observed OBU and channel the class
\* is red (0) if rate / threshold >= 1.0, yellow (1) if it is >= 0.6,
\* otherwise green (2); the combined reputation is the minimum of the two
\* classes, and the ledger has exactly one row per observed OBU.
LedgerClassesAndRows ==
    Returned("find_faulty_obus")
    => LET rep == report[1]
       IN  /\ Len(rep.ledger) = Cardinality(ObservedObus(rsu_manager.obu_observations))
           /\ \A id \in ObservedObus(rsu_manager.obu_observations) :
                 Cardinality({k \in 1 .. Len(rep.ledger) : rep.ledger[k].obu_id = id}) = 1
           /\ \A k \in 1 .. Len(rep.ledger) :
                 LET row == rep.ledger[k]
                     stats == rep.error_stats[row.obu_id]
                 IN  /\ row.tx_reputation_class
                          = ClassOfQuotient(stats.tx_error_rate, rep.tx_threshold)
                     /\ row.gps_repuation_class
                          = ClassOfQuotient(stats.gps_error_rate, rep.gps_threshold)
                     /\ row.reputation
                          = IF row.tx_reputation_class <= row.gps_repuation_class
                            THEN row.tx_reputation_class
                            ELSE row.gps_repuation_class

\* C26, its case: a ledger of two rows, one green on both channels and one
\* whose GPS class is yellow and whose combined reputation is yellow
LedgerWithYellowRow ==
    /\ Returned("find_faulty_obus")
    /\ Len(report[1].ledger) = 2
    /\ \E k \in 1 .. 2 :
         /\ report[1].ledger[k].gps_repuation_class = 1
         /\ report[1].ledger[k].tx_reputation_class = 2
         /\ report[1].ledger[k].reputation = 1
    /\ \E k \in 1 .. 2 : report[1].ledger[k].reputation = 2

-----------------------------------------------------------------------------
(* Properties of the beacons and the neighbor lists (Spec)                 *)

EtherSenders == {ether[k].origin_id : k \in 1 .. Len(ether)}

\* C27 -- beacon emission: a collection holds at most one message per OBU;
\* each carries the OBU's true coordinate as physical coordinate and its
\* range, and reports the true coordinate or, after a failed GPS trial, an
\* in-grid cell farther than tx_range + 2 from the true coordinate.
BeaconsAreWellFormed ==
    pc \in {"deliver", "finish"}
    => /\ EtherSenders \subseteq DOMAIN obu_manager.obus
       /\ Cardinality(EtherSenders) = Len(ether)
       /\ Len(ether) + flight.failures >= ObusLen(obu_manager)
       /\ \A k \in 1 .. Len(ether) :
             LET message == ether[k]
                 obu     == obu_manager.obus[message.origin_id]
             IN  /\ message.origin_type = "OBU"
                 /\ message.phy_coord = obu.coordinate
                 /\ message.phy_range = obu_manager.comms_range
                 /\ \/ message.coordinate = obu.coordinate
                    \/ /\ message.coordinate \in Cells
                       /\ Sq(message.coordinate.x - obu.coordinate.x)
                            + Sq(message.coordinate.y - obu.coordinate.y)
                          > Sq(obu_manager.comms_range + 2)
                       /\ flight.failures > 0

\* C27, its case: a collection of two OBUs in which one sent a beacon with
\* a spoofed coordinate and the other a beacon with its own
SpoofedBeaconInEther ==
    /\ pc = "deliver"
    /\ Len(ether) = 2
    /\ \E j, k \in 1 .. 2 :
         /\ ether[j].coordinate # ether[j].phy_coord
         /\ ether[k].coordinate = ether[k].phy_coord

-----------------------------------------------------------------------------
(* get_random_coordinate_outside_range, draw by draw (obu.rs)              *)

SearchGridParams == {[blocks_per_street |-> 1, block_size |-> 1],
                     [blocks_per_street |-> 1, block_size |-> 2]}

\* the OBU whose search is run
Searcher == obu_manager.obus[0]

InitSearch ==
    /\ \E gp \in SearchGridParams, tx_range \in 1 .. MaxSearchRange :
         /\ grid = GridNew(gp.blocks_per_street, gp.block_size)
         /\ \E x \in 0 .. grid.dimension - 1, y \in 0 .. grid.dimension - 1 :
              obu_manager =
                CreateObu(ObuManagerNew(1, tx_range, 0, grid.dimension),
                          Coordinate(x, y)).mgr
    /\ rsu_manager = RsuManagerNew(1, 1, FALSE, FALSE)
    /\ round = 0
    /\ ether = <<>>
    /\ pc = "search"
    /\ rounds_left = 0
    /\ last_result = None
    /\ report = None
    /\ flight = NoFlight

SearchFrame ==
    UNCHANGED <<grid, obu_manager, rsu_manager, round, ether, rounds_left,
                report, flight>>

\* one pass of the loop whose draw fails the distance test
DrawRejected ==
    /\ pc = "search"
    /\ \E x \in 0 .. Searcher.grid_dimension - 1,
          y \in 0 .. Searcher.grid_dimension - 1 :
         /\ Coordinate(x, y) \notin OutsideRange(Searcher)
         /\ last_result' = Some(Coordinate(x, y))
    /\ pc' = "search"
    /\ SearchFrame

\* one pass of the loop whose draw passes the test: the function returns it
DrawAccepted ==
    /\ pc = "search"
    /\ \E c \in OutsideRange(Searcher) : last_result' = Some(c)
    /\ pc' = "returned"
    /\ SearchFrame

NextSearch == DrawRejected \/ DrawAccepted

\* a fair draw: a cell that passes the test is not avoided forever
SpecSearch == InitSearch /\ [][NextSearch]_vars /\ WF_vars(DrawAccepted)

\* the in-grid cells farther than tx_range + 2 from the searching OBU
FarCells ==
    {c \in Cells :
        Sq(c.x - Searcher.coordinate.x) + Sq(c.y - Searcher.coordinate.y)
          > Sq(Searcher.tx_range + 2)}

\* C28 -- spoof-coordinate search: with fair draws the search returns
\* whenever the grid has a cell farther than tx_range + 2 from the OBU, and
\* what it returns is such a cell; when there is none it never returns.
SearchReturnsIffFarCell ==
    /\ (pc = "search" /\ FarCells # {}) ~> (pc = "returned")
    /\ [](pc = "returned" => last_result[1] \in FarCells)
    /\ [](FarCells = {} => pc = "search")

\* C28, its case: a draw was rejected on a grid with no cell far enough
DrawRejectedWithNoFarCell ==
    /\ pc = "search"
    /\ FarCells = {}
    /\ last_result # None
    /\ grid.dimension = 4

-----------------------------------------------------------------------------
(* Deliveries made by hand to both managers (obu_manager.rs,               *)
(* rsu_manager.rs)                                                         *)

\* three OBUs of range 1 on a row: OBU 0 and OBU 1 hear each other, the RSU
\* at (0, 0) hears OBU 0 and OBU 1, the RSU at (2, 0) hears OBU 1, and
\* nobody hears OBU 2
DeliverObuSites == <<Coordinate(0, 0), Coordinate(1, 0), Coordinate(4, 0)>>

\* what each OBU may put in a delivery: OBU 0 sends, stays silent or
\* reports a spoofed coordinate; OBU 1 and OBU 2 send or stay silent
DeliverKinds ==
    {kinds \in [0 .. 2 -> {"none", "sent", "spoofed"}] :
        kinds[1] # "spoofed" /\ kinds[2] # "spoofed"}

DeliverBeacon(id, kind) ==
    IF kind = "none" THEN <<>>
    ELSE <<MessageNew(id, "OBU",
                      IF kind = "spoofed" THEN LedgerSpoof ELSE DeliverObuSites[id + 1],
                      DeliverObuSites[id + 1], 1)>>

\* a message of an RSU, which no receiver lists
RsuBeacon(present) ==
    IF present THEN <<MessageNew(0, "RSU", RsuSites[1], RsuSites[1], 1)>> ELSE <<>>

InitDeliver ==
    /\ rsu_manager = CreateRsu(CreateRsu(RsuManagerNew(1, 1, TRUE, TRUE),
                                         RsuSites[1]),
                               RsuSites[2])
    /\ obu_manager =
         CreateObu(CreateObu(CreateObu(ObuManagerNew(3, 1, 0, 6),
                                       DeliverObuSites[1]).mgr,
                             DeliverObuSites[2]).mgr,
                   DeliverObuSites[3]).mgr
    /\ grid = GridNew(0, 0)
    /\ round = 0
    /\ ether = <<>>
    /\ pc = "delivery"
    /\ rounds_left = 0
    /\ last_result = None
    /\ report = None
    /\ flight = NoFlight

\* one delivery as Simulator::deliver_messages makes it, to the OBUs and to
\* the RSUs, followed by set_current_round as in run; last_result keeps the
\* neighbor lists the OBUs had before the call
CallDeliverMessages ==
    /\ pc = "delivery"
    /\ Len(rsu_manager.obu_observations) < MaxDeliveries
    /\ \E kinds \in DeliverKinds, with_rsu \in BOOLEAN :
         LET messages == RsuBeacon(with_rsu) \o DeliverBeacon(0, kinds[0])
                           \o DeliverBeacon(1, kinds[1]) \o DeliverBeacon(2, kinds[2])
         IN  /\ obu_manager' = ObuDeliverMessages(obu_manager, messages)
             /\ rsu_manager' =
                   [RsuDeliverMessages(rsu_manager, messages)
                      EXCEPT !.current_round = rsu_manager.current_round + 1]
             /\ flight' = [flight EXCEPT !.iteration = @ + 1,
                                         !.delivered = Some(messages)]
    /\ last_result' = Some([id \in DOMAIN obu_manager.obus |->
                              obu_manager.obus[id].neighbors])
    /\ UNCHANGED <<grid, round, ether, pc, rounds_left, report>>

NextDeliver == CallDeliverMessages

SpecDeliver == InitDeliver /\ [][NextDeliver]_vars

\* the positions in the delivered messages of those that reach place
HeardAt(place) ==
    {k \in 1 .. Len(flight.delivered[1]) :
        LET message == flight.delivered[1][k]
        IN  /\ message.origin_type = "OBU"
            /\ Sq(message.phy_coord.x - place.x) + Sq(message.phy_coord.y - place.y)
                 <= Sq(message.phy_range)}

\* neighbors holds one entry (sender id, reported coordinate) per message
\* position in heard, and nothing else
ListsExactly(neighbors, heard) ==
    /\ Len(neighbors) = Cardinality(heard)
    /\ \A k \in heard :
          LET entry == [id         |-> flight.delivered[1][k].origin_id,
                        coordinate |-> flight.delivered[1][k].coordinate]
          IN  Cardinality({j \in 1 .. Len(neighbors) : neighbors[j] = entry})
                = Cardinality({j \in heard :
                                 /\ flight.delivered[1][j].origin_id = entry.id
                                 /\ flight.delivered[1][j].coordinate = entry.coordinate})

\* C29 -- neighbor lists are replaced: right after a delivery every OBU's
\* and every RSU's neighbor list holds exactly one entry (sender id,
\* reported coordinate) per OBU message of that delivery that reaches it,
\* nothing from an earlier round, and an OBU's list has no entry for its
\* own id.
NeighborsReplaced ==
    (pc \in {"move", "delivery"} /\ flight.delivered # None)
    => /\ \A id \in DOMAIN obu_manager.obus :
             LET obu == obu_manager.obus[id]
             IN  /\ ListsExactly(obu.neighbors,
                                 {k \in HeardAt(obu.coordinate) :
                                     flight.delivered[1][k].origin_id # id})
                 /\ \A j \in 1 .. Len(obu.neighbors) : obu.neighbors[j].id # id
       /\ \A r \in DOMAIN rsu_manager.rsus :
             ListsExactly(rsu_manager.rsus[r].neighbors,
                          HeardAt(rsu_manager.rsus[r].coordinate))

\* C29, its case: a second delivery in which OBU 1 stayed silent and OBU 0
\* spoofed: OBU 0, which listed OBU 1 before, lists nobody; OBU 1, which
\* listed OBU 0's own coordinate before, lists the spoofed one; and the RSU
\* at (2, 0), which had sighted an OBU in the first delivery, lists nobody
NeighborListRewritten ==
    /\ pc = "delivery"
    /\ flight.iteration = 2
    /\ last_result[1][0] = <<[id |-> 1, coordinate |-> DeliverObuSites[2]]>>
    /\ last_result[1][1] = <<[id |-> 0, coordinate |-> DeliverObuSites[1]]>>
    /\ obu_manager.obus[0].neighbors = <<>>
    /\ obu_manager.obus[1].neighbors = <<[id |-> 0, coordinate |-> LedgerSpoof]>>
    /\ \E id \in DOMAIN rsu_manager.obu_observations[1] :
         \E k \in 1 .. Len(rsu_manager.obu_observations[1][id]) :
            rsu_manager.obu_observations[1][id][k].rsu_id = 1
    /\ rsu_manager.rsus[1].neighbors = <<>>

\* the RSUs that the delivered message at position k reaches
HearingRsus(k) ==
    {r \in DOMAIN rsu_manager.rsus : k \in HeardAt(rsu_manager.rsus[r].coordinate)}

\* C30 -- round sightings: the history entry appended by a delivery maps
\* an OBU id to exactly one sighting (reported coordinate, observing RSU
\* id) for each RSU that accepted that OBU's message; an OBU accepted by no
\* RSU has no key, and no RSU id appears twice for one OBU.
EntryListsEachHearingRsu ==
    (pc \in {"move", "delivery"} /\ flight.delivered # None)
    => LET entry    == rsu_manager.obu_observations[Len(rsu_manager.obu_observations)]
           messages == flight.delivered[1]
       IN  /\ DOMAIN entry
                = {messages[k].origin_id : k \in {k \in 1 .. Len(messages) :
                                                    HearingRsus(k) # {}}}
           /\ \A k \in 1 .. Len(messages) :
                 HearingRsus(k) # {}
                 => LET sightings == entry[messages[k].origin_id]
                    IN  /\ Len(sightings) = Cardinality(HearingRsus(k))
                        /\ \A r \in HearingRsus(k) :
                              Cardinality({j \in 1 .. Len(sightings) :
                                             sightings[j].rsu_id = r}) = 1
                        /\ \A j \in 1 .. Len(sightings) :
                              /\ sightings[j].rsu_id \in HearingRsus(k)
                              /\ sightings[j].coordinate = messages[k].coordinate

\* C30, its case: all three OBUs sent; the entry has two sightings of OBU 1,
\* one by each RSU, one of OBU 0, and no key for OBU 2, which no RSU hears
EntryWithTwoObservers ==
    /\ pc = "delivery"
    /\ flight.delivered # None
    /\ {flight.delivered[1][k].origin_id : k \in 1 .. Len(flight.delivered[1])} = {0, 1, 2}
    /\ LET entry == rsu_manager.obu_observations[Len(rsu_manager.obu_observations)]
       IN  /\ DOMAIN entry = {0, 1}
           /\ Len(entry[0]) = 1
           /\ {entry[1][j].rsu_id : j \in 1 .. Len(entry[1])} = {0, 1}
           /\ Len(entry[1]) = 2

-----------------------------------------------------------------------------
(* The move phase (simulator.rs do_obus_moves)                             *)

\* every order in which the OBUs of `ids` can be visited
VisitOrders(ids) ==
    {order \in [1 .. Cardinality(ids) -> ids] :
        \A a, b \in 1 .. Cardinality(ids) : order[a] = order[b] => a = b}

ManhattanDistance(a, b) == Abs(a.x - b.x) + Abs(a.y - b.y)

\* the successors of `from` that are outside `occupied`
FreeSuccessors(g, from, occupied) ==
    LET next == CalculateNextCoordinates(g, from)
    IN  {next[k] : k \in 1 .. Len(next)} \ occupied

\* visiting the OBUs in `order` from position k on, with `occupied` the
\* occupied cells at that moment: each OBU went to a free successor one cell
\* away, or stayed because it had none
RECURSIVE LegalVisits(_, _, _, _, _, _)
LegalVisits(g, before, after, order, k, occupied) ==
    IF k > Len(order)
    THEN TRUE
    ELSE LET from == before[order[k]].coordinate
             to   == after[order[k]].coordinate
             free == FreeSuccessors(g, from, occupied)
         IN  /\ IF to = from
                THEN free = {}
                ELSE to \in free /\ ManhattanDistance(from, to) = 1
             /\ LegalVisits(g, before, after, order, k + 1,
                            (occupied \ {from}) \cup {to})

\* C31: in the move phase of a round every OBU keeps its cell or goes to a
\* successor of its cell that was unoccupied when the OBU was visited, keeps
\* its cell only when no successor was unoccupied then, and goes one cell at
\* most
MovesFollowFreeLanes ==
    [][pc = "move"
       => /\ DOMAIN obu_manager'.obus = DOMAIN obu_manager.obus
          /\ \E order \in VisitOrders(DOMAIN obu_manager.obus) :
                LegalVisits(grid, obu_manager.obus, obu_manager'.obus, order, 1,
                            OccupiedCells)]_vars

\* C31, its case: after a move phase an OBU is on a cell where no OBU enters
\* the grid
MovedOffLaneEntry ==
    /\ pc = NextPhase("move")
    /\ \E id \in DOMAIN obu_manager.obus :
          obu_manager.obus[id].coordinate
             \notin {LaneEntries(grid, 0)[k] : k \in 1 .. Len(LaneEntries(grid, 0))}

-----------------------------------------------------------------------------
(* The lane graph and its readers, called by hand on a grid as             *)
(* constructed, before or after update_next_coordinates (grid.rs)          *)

MaxLaneObus == 1

InitLanes ==
    /\ \E gp \in InsertGridParams :
          grid = GridNew(gp.blocks_per_street, gp.block_size)
    /\ obu_manager = ObuManagerNew(MaxLaneObus, 1, 0, grid.dimension)
    /\ rsu_manager = RsuManagerNew(1, 1, FALSE, FALSE)
    /\ round = 0
    /\ ether = <<>>
    /\ pc = "lanes"
    /\ rounds_left = 0
    /\ last_result = None
    /\ report = None
    /\ flight = NoFlight

LanesFrame == UNCHANGED <<rsu_manager, round, ether, pc, rounds_left, last_result, flight>>

CallUpdateNextCoordinates ==
    /\ pc = "lanes"
    /\ grid' = UpdateNextCoordinates(grid)
    /\ report' = Some([call |-> "update_next_coordinates"])
    /\ UNCHANGED obu_manager
    /\ LanesFrame

CallGetNextCoordinates ==
    /\ pc = "lanes"
    /\ \E c \in Cells :
          /\ grid' = GridAfterGetNext(grid)
          /\ report' = Some([call |-> "get_next_coordinates", coordinate |-> c,
                             stored_before |-> Len(grid.cells[0][0].next_coordinates) # 0,
                             result |-> GetNextCoordinates(grid, c)])
    /\ UNCHANGED obu_manager
    /\ LanesFrame

CallGetPossibleMoves ==
    /\ pc = "lanes"
    /\ \E c \in Cells :
          /\ grid' = GridAfterGetNext(grid)
          /\ report' = Some([call |-> "get_possible_moves", coordinate |-> c,
                             result |-> GetPossibleMoves(grid, c)])
    /\ UNCHANGED obu_manager
    /\ LanesFrame

\* a call of insert_obu with a fresh id
CallLaneInsert ==
    /\ pc = "lanes"
    /\ obu_manager.next_id < MaxLaneObus
    /\ LET inserted == InsertObu(grid, obu_manager.next_id)
       IN  /\ grid' = inserted.grid
           /\ report' = Some([call |-> "insert_obu", result |-> inserted.result])
    /\ obu_manager' = [obu_manager EXCEPT !.next_id = @ + 1]
    /\ LanesFrame

\* a call of move_obu from an occupied cell to an unoccupied successor
CallLaneMove ==
    /\ pc = "lanes"
    /\ \E a \in OccupiedIn(grid) :
         \E b \in FreeSuccessors(grid, a, OccupiedIn(grid)) :
            /\ grid' = MoveObu(grid, a, b)
            /\ report' = Some([call |-> "move_obu", from |-> a, result |-> b])
    /\ UNCHANGED obu_manager
    /\ LanesFrame

NextLanes ==
    \/ CallUpdateNextCoordinates
    \/ CallGetNextCoordinates
    \/ CallGetPossibleMoves
    \/ CallLaneInsert
    \/ CallLaneMove

SpecLanes == InitLanes /\ [][NextLanes]_vars

\* the last call made on the grid
Called(call) == report # None /\ report[1].call = call

\* C32: get_possible_moves(c) returns the successors of c whose occupant slot
\* is empty, all of them and nothing else, in the order of the successor
\* list, and leaves the occupant of every cell as it was
PossibleMovesAreFreeSuccessors ==
    [][(report' # None /\ report'[1].call = "get_possible_moves")
       => LET c    == report'[1].coordinate
              next == CalculateNextCoordinates(grid, c)
          IN  /\ report'[1].result
                   = SelectSeq(next, LAMBDA n : grid.cells[n.x][n.y].obu_id = None)
              /\ \A d \in Cells :
                    grid'.cells[d.x][d.y].obu_id = grid.cells[d.x][d.y].obu_id]_vars

\* C32, its case: a cell with two successors, the first occupied, the second
\* returned
SecondSuccessorReturned ==
    /\ Called("get_possible_moves")
    /\ Len(CalculateNextCoordinates(grid, report[1].coordinate)) = 2
    /\ report[1].result = <<CalculateNextCoordinates(grid, report[1].coordinate)[2]>>
    /\ OccupiedIn(grid) # {}

\* the successor list stored in each cell
StoredNextCoordinates(g) == [c \in Cells |-> g.cells[c.x][c.y].next_coordinates]

-----------------------------------------------------------------------------
(* The lane graph as stored by init, over every constructed grid           *)

\* the stored successors of a cell
Successors(c) ==
    {grid.cells[c.x][c.y].next_coordinates[k] :
        k \in 1 .. Len(grid.cells[c.x][c.y].next_coordinates)}

StreetCells == {c \in Cells : grid.cells[c.x][c.y].is_street}

Crossings == {c \in Cells : IsStreet(grid, c.x) /\ IsStreet(grid, c.y)}

InteriorCells == {c \in Cells : /\ 0 < c.x /\ c.x < grid.dimension - 1
                                /\ 0 < c.y /\ c.y < grid.dimension - 1}

OnAxis(a, b, is_column) == IF is_column THEN a.x = b.x ELSE a.y = b.y

OutboundLanes(c, is_column) == {n \in Successors(c) : OnAxis(c, n, is_column)}

InboundLanes(c, is_column) ==
    {p \in Cells : c \in Successors(p) /\ OnAxis(c, p, is_column)}

OneInOneOutPerAxis(c) ==
    \A is_column \in BOOLEAN :
       /\ Cardinality(OutboundLanes(c, is_column)) = 1
       /\ Cardinality(InboundLanes(c, is_column)) = 1

\* the flow directions of every street index: opposite on the two axes, and
\* given by the parity of the index
FlowsOppositeByParity ==
    \A s \in 0 .. grid.dimension - 1 :
       /\ GetFlowDirection(s, TRUE) # GetFlowDirection(s, FALSE)
       /\ GetFlowDirection(s, TRUE) = (IF s % 2 = 0 THEN "ToZero" ELSE "FromZero")
       /\ GetFlowDirection(s, FALSE) = (IF s % 2 = 0 THEN "FromZero" ELSE "ToZero")

-----------------------------------------------------------------------------
(* Ether::is_transmission_possible (comms.rs), under SpecGeometry          *)

SquaredDistance(a, b) == (a.x - b.x) * (a.x - b.x) + (a.y - b.y) * (a.y - b.y)

\* C35: is_transmission_possible(tx, range, rx) is true exactly when the
\* squared distance of tx and rx is at most range squared, the boundary
\* included, and gives the same answer with tx and rx exchanged
TransmissionIffWithinRange ==
    Returned("is_transmission_possible")
    => /\ report[1].result
            <=> SquaredDistance(report[1].transmitter, report[1].receiver)
                  <= report[1].range * report[1].range
       /\ report[1].result
            = IsTransmissionPossible(report[1].receiver, report[1].range,
                                     report[1].transmitter)

\* C35, its case: the receiver at distance 5 of a transmitter of range 5
ReachedAtExactRange ==
    /\ Returned("is_transmission_possible")
    /\ report[1].transmitter = Coordinate(0, 0)
    /\ report[1].receiver = Coordinate(3, 4)
    /\ report[1].range = 5
    /\ report[1].result

-----------------------------------------------------------------------------
(* add_on_board_unit at the population cap (simulator.rs), under Spec      *)

\* C36: a call of add_on_board_unit that returns the empty result leaves the
\* occupant of every cell, the OBU population and the next id as they were
RefusedAddLeavesNoTrace ==
    [][(pc = "idle" /\ pc' = "idle" /\ last_result' = None)
       => /\ \A c \in Cells :
                GetCellState(grid', c).obu_id = GetCellState(grid, c).obu_id
          /\ obu_manager'.obus = obu_manager.obus
          /\ obu_manager'.next_id = obu_manager.next_id]_vars

\* C36, the state the failing input reaches: after a refused call more cells
\* are occupied than there are OBUs
MoreOccupantsThanObus ==
    /\ pc = "idle"
    /\ last_result = None
    /\ Cardinality(OccupiedCells) > ObusLen(obu_manager)

-----------------------------------------------------------------------------
(* Shape of the lane graph, under SpecConstruct                            *)

\* C37: on every grid with blocks_per_street >= 1 and block_size >= 1, once
\* the lane graph is stored, every street cell has at least one successor
NoDeadEnds ==
    (pc # "new" /\ grid.blocks_per_street >= 1 /\ grid.block_size >= 1)
    => \A c \in StreetCells : Successors(c) # {}

\* C37, the failing input: on the grid of dimension 3 the corner (2, 0) ends
\* both of its lanes
CornerEndsBothLanes ==
    /\ pc # "new"
    /\ grid.blocks_per_street = 1
    /\ grid.block_size = 1
    /\ Coordinate(2, 0) \in StreetCells
    /\ Successors(Coordinate(2, 0)) = {}
    /\ InboundLanes(Coordinate(2, 0), TRUE) = {Coordinate(2, 1)}
    /\ InboundLanes(Coordinate(2, 0), FALSE) = {Coordinate(1, 0)}

-----------------------------------------------------------------------------
(* Reputation class against the flag test (rsu_manager.rs), under          *)
(* SpecLedger, where both detectors are enabled                            *)

\* C38: on each channel the class of an observed OBU is red (0) exactly when
\* its rate is at or above the channel's threshold, which is the condition
\* under which the enabled detector flags it, a zero threshold included
RedClassIffFlagged ==
    Returned("find_faulty_obus")
    => \A k \in 1 .. Len(report[1].ledger) :
          LET row == report[1].ledger[k]
          IN  /\ row.tx_reputation_class = 0
                   <=> ~FracLess(row.tx_error_rate, report[1].tx_threshold)
              /\ row.gps_repuation_class = 0
                   <=> ~FracLess(row.gps_error_rate, report[1].gps_threshold)

\* C38, the state the failing input reaches: the GPS threshold is zero and an
\* OBU with GPS rate zero is in the faulty list with a green GPS class, its
\* transmission rate being below the transmission threshold
FlaggedWithGreenClass ==
    /\ Returned("find_faulty_obus")
    /\ report[1].gps_threshold = Frac(0, 1)
    /\ \E k \in 1 .. Len(report[1].ledger) :
          LET row == report[1].ledger[k]
          IN  /\ row.gps_error_rate = Frac(0, 1)
              /\ row.gps_repuation_class = 2
              /\ FracLess(row.tx_error_rate, report[1].tx_threshold)
              /\ row.obu_id \in report[1].faulty_obus

-----------------------------------------------------------------------------
(* Bounds of the error statistics at detection time, under SpecDetect      *)

IsUnitRate(rate) == 0 <= rate.n /\ rate.n <= rate.d

\* C39: when find_faulty_obus has run at the end of a run, for every observed
\* OBU rounds-seen plus first-seen is at most the length of the history, the
\* transmission-error count is at least zero and at most the current round,
\* the GPS-error count is at most rounds-seen, and both rates are in [0, 1]
ErrorCountsBounded ==
    (pc = "idle" /\ report # None)
    => \A id \in DOMAIN report[1].error_stats :
          LET stats == report[1].error_stats[id]
          IN  /\ stats.tx_count + stats.first_seen <= Len(rsu_manager.obu_observations)
              /\ 0 <= stats.tx_error_count
              /\ stats.tx_error_count <= rsu_manager.current_round
              /\ 0 <= stats.gps_error_count
              /\ stats.gps_error_count <= stats.tx_count
              /\ IsUnitRate(stats.tx_error_rate)
              /\ IsUnitRate(stats.gps_error_rate)

\* C39, its case: a run of two rounds after which one OBU was seen in both
\* rounds and another has a missed round or a GPS error
BoundsMetWithErrors ==
    /\ pc = "idle"
    /\ report # None
    /\ Len(rsu_manager.obu_observations) = 2
    /\ \E id \in DOMAIN report[1].error_stats :
          /\ report[1].error_stats[id].tx_count = 2
          /\ report[1].error_stats[id].first_seen = 0
    /\ \E id \in DOMAIN report[1].error_stats :
          \/ report[1].error_stats[id].tx_error_count = 1
          \/ report[1].error_stats[id].gps_error_count >= 1

-----------------------------------------------------------------------------
(* OBUs and the street network, under Spec                                 *)

\* C40: in every reachable state the coordinate of each OBU is inside the
\* grid on both axes and is a street cell; every cell that insert_obu has
\* marked is a street cell; and every stored successor of a street cell is a
\* street cell inside the grid one cell away
ObusStayOnStreets ==
    /\ \A id \in DOMAIN obu_manager.obus :
          LET c == obu_manager.obus[id].coordinate
          IN  /\ c.x \in 0 .. grid.dimension - 1
              /\ c.y \in 0 .. grid.dimension - 1
              /\ grid.cells[c.x][c.y].is_street
    /\ \A c \in OccupiedCells : grid.cells[c.x][c.y].is_street
    /\ \A c \in StreetCells :
          \A n \in Successors(c) :
             /\ n \in Cells
             /\ grid.cells[n.x][n.y].is_street
             /\ ManhattanDistance(c, n) = 1

\* C40, its case: a run has ended with two OBUs on the grid, one of them on a
\* street cell between two crossings
ObuBetweenCrossings ==
    /\ pc = "idle"
    /\ report # None
    /\ ObusLen(obu_manager) = 2
    /\ \E id \in DOMAIN obu_manager.obus :
          obu_manager.obus[id].coordinate \in StreetCells \ Crossings

=============================================================================
